---- MODULE Spec2Model ----
(***************************************************************************)
(* A model of the physics3d-engine: RigidBody, the Box/Sphere colliders    *)
(* and their narrow phase, and PhysicsWorld (registries, fixed-step loop,  *)
(* detection, resolution, raycast).                                        *)
(*                                                                         *)
(* Numbers.  The program computes in IEEE doubles.  The model computes in  *)
(* fixed point: the integer n stands for the real n / S, products and      *)
(* quotients are rounded to the nearest representable value (sign          *)
(* symmetric, as IEEE rounding is).  S is chosen so that the program's     *)
(* constants 1/60, 1/120, 0.001, 0.005, 0.01, 0.9 are exact.  Division by  *)
(* zero, which the program never guards, yields the IEEE values Infinity   *)
(* and NaN: raycastAABB computes in extended numbers (Fin/Inf/NaN), and a  *)
(* vector carries a nan flag for the only way the step loop produces NaN   *)
(* (x / 0 followed by * 0, which makes every component NaN at once).       *)
(*                                                                         *)
(* RigidBody.rotation is left out: integrate writes it and no operation    *)
(* of the program reads it (AABBs ignore orientation).                     *)
(***************************************************************************)
EXTENDS Integers, Sequences, FiniteSets, TLC

\* ------------------------------------------------------------------------
\* Fixed-point arithmetic
\* ------------------------------------------------------------------------

\* The fixed-point scale: the integer n stands for n / S.
S == 60 * 600

Abs(a) == IF a < 0 THEN 0 - a ELSE a

Sgn(a) == IF a < 0 THEN 0 - 1 ELSE IF a > 0 THEN 1 ELSE 0

\* Math.min / Math.max on finite numbers.
Min2(a, b) == IF a < b THEN a ELSE b

Max2(a, b) == IF a > b THEN a ELSE b

\* a * b / S rounded to nearest, for a, b >= 0, without leaving 32 bits.
MulMag(a, b) ==
  LET ah == a \div S
      al == a % S
      bh == b \div S
      bl == b % S
  IN ah * bh * S + ah * bl + al * bh + ((al * bl + (S \div 2)) \div S)

\* The product of two numbers (the * of the program).
Mul(a, b) == Sgn(a) * Sgn(b) * MulMag(Abs(a), Abs(b))

\* a * S / b rounded to nearest, for a >= 0, b > 0, by long division
\* (S = 180 * 200, so that no intermediate product leaves 32 bits).
DivMag(a, b) ==
  LET q0 == a \div b
      r0 == a % b
      q1 == (r0 * 180) \div b
      r1 == (r0 * 180) % b
  IN q0 * S + q1 * 200 + ((r1 * 200 + (b \div 2)) \div b)

\* The quotient of two finite numbers, b # 0 (the / of the program).
Div(a, b) == Sgn(a) * Sgn(b) * DivMag(Abs(a), Abs(b))

\* The integer square root, by bisection on [lo, hi).
RECURSIVE IsqrtIn(_, _, _)
IsqrtIn(n, lo, hi) ==
  IF hi - lo <= 1 THEN lo
  ELSE LET mid == (lo + hi) \div 2
       IN IF mid * mid <= n THEN IsqrtIn(n, mid, hi) ELSE IsqrtIn(n, lo, mid)

Isqrt(n) == IsqrtIn(n, 0, 46341)

\* Math.sqrt of a number a >= 0.
RECURSIVE Sqrt(_)
Sqrt(a) == IF a < 59000 THEN Isqrt(a * S) ELSE 2 * Sqrt(a \div 4)

\* sqrt(x*x + y*y + z*z) for x, y, z >= 0.
RECURSIVE Hyp(_, _, _)
Hyp(x, y, z) ==
  IF Max2(x, Max2(y, z)) <= 26000 THEN Isqrt(x * x + y * y + z * z)
  ELSE 2 * Hyp(x \div 2, y \div 2, z \div 2)

\* ------------------------------------------------------------------------
\* Vector3D
\* ------------------------------------------------------------------------

\* new Vector3D(x, y, z)
Vec(x, y, z) == [x |-> x, y |-> y, z |-> z, nan |-> FALSE]

\* A vector every component of which is NaN.
NaNV == [x |-> 0, y |-> 0, z |-> 0, nan |-> TRUE]

Zero == Vec(0, 0, 0)

VAdd(a, b) ==
  IF a.nan \/ b.nan THEN NaNV ELSE Vec(a.x + b.x, a.y + b.y, a.z + b.z)

VSub(a, b) ==
  IF a.nan \/ b.nan THEN NaNV ELSE Vec(a.x - b.x, a.y - b.y, a.z - b.z)

\* multiply(scalar), the scalar finite
VMul(a, k) ==
  IF a.nan THEN NaNV ELSE Vec(Mul(a.x, k), Mul(a.y, k), Mul(a.z, k))

\* dot(v) of two finite vectors
VDot(a, b) == Mul(a.x, b.x) + Mul(a.y, b.y) + Mul(a.z, b.z)

\* cross(v)
VCross(a, b) ==
  IF a.nan \/ b.nan THEN NaNV ELSE
  Vec(Mul(a.y, b.z) - Mul(a.z, b.y),
      Mul(a.z, b.x) - Mul(a.x, b.z),
      Mul(a.x, b.y) - Mul(a.y, b.x))

\* magnitude() of a finite vector
VMag(a) == Hyp(Abs(a.x), Abs(a.y), Abs(a.z))

\* divide(scalar) as normalize uses it: a zero magnitude leaves the zero vector
VDivide(a, mag) ==
  IF mag = 0 THEN Zero ELSE Vec(Div(a.x, mag), Div(a.y, mag), Div(a.z, mag))

\* normalize() of a finite vector
VNormalize(a) == VDivide(a, VMag(a))

\* distanceTo(v) of two finite vectors
VDist(a, b) == VMag(VSub(a, b))

\* ------------------------------------------------------------------------
\* AABB
\* ------------------------------------------------------------------------

\* new AABB(min, max)
AABB(min, max) == [min |-> min, max |-> max]

\* AABB.intersects: closed intervals; every comparison with NaN is false
Intersects(a, b) ==
  /\ ~a.min.nan /\ ~a.max.nan /\ ~b.min.nan /\ ~b.max.nan
  /\ a.min.x <= b.max.x /\ a.max.x >= b.min.x
  /\ a.min.y <= b.max.y /\ a.max.y >= b.min.y
  /\ a.min.z <= b.max.z /\ a.max.z >= b.min.z

\* AABB.expand(amount)
Expand(a, amount) ==
  LET expansion == Vec(amount, amount, amount)
  IN AABB(VSub(a.min, expansion), VAdd(a.max, expansion))

\* ------------------------------------------------------------------------
\* RigidBody
\* ------------------------------------------------------------------------

\* The constructor's material defaults.
DefaultRestitution == 21600

DefaultFriction == 18000

DefaultDrag == 360

DefaultAngularDrag == 1800

\* mass > 0 ? 1 / mass : 0
InverseMassOf(mass) == IF mass > 0 THEN Div(S, mass) ELSE 0

\* new RigidBody(mass, position)
NewRigidBody(mass, position) ==
  [position |-> position, velocity |-> Zero, acceleration |-> Zero,
   angularVelocity |-> Zero, angularAcceleration |-> Zero,
   mass |-> mass, inverseMass |-> InverseMassOf(mass),
   restitution |-> DefaultRestitution, friction |-> DefaultFriction,
   drag |-> DefaultDrag, angularDrag |-> DefaultAngularDrag,
   isStatic |-> FALSE, isKinematic |-> FALSE, useGravity |-> TRUE,
   forces |-> << >>, torques |-> << >>]

\* RigidBody.addForce
BodyAddForce(b, force) ==
  IF b.isStatic THEN b ELSE [b EXCEPT !.forces = Append(@, force)]

\* RigidBody.addTorque
BodyAddTorque(b, torque) ==
  IF b.isStatic THEN b ELSE [b EXCEPT !.torques = Append(@, torque)]

\* RigidBody.addForceAtPoint: the force, and the torque (point - position) x force
BodyAddForceAtPoint(b, force, point) ==
  IF b.isStatic THEN b
  ELSE BodyAddTorque(BodyAddForce(b, force),
                     VCross(VSub(point, b.position), force))

\* RigidBody.setMass: only a mass of exactly 0 sets isStatic
BodySetMass(b, mass) ==
  [b EXCEPT !.mass = mass,
            !.inverseMass = InverseMassOf(mass),
            !.isStatic = IF mass = 0 THEN TRUE ELSE @]

\* RigidBody.makeStatic
BodyMakeStatic(b) ==
  [b EXCEPT !.isStatic = TRUE, !.inverseMass = 0,
            !.velocity = Zero, !.angularVelocity = Zero]

\* RigidBody.makeKinematic
BodyMakeKinematic(b) == [b EXCEPT !.isKinematic = TRUE, !.inverseMass = 0]

\* RigidBody.makeDynamic(mass)
BodyMakeDynamic(b, mass) ==
  BodySetMass([b EXCEPT !.isStatic = FALSE, !.isKinematic = FALSE], mass)

\* The sum of a list of vectors, from Vector3D.zero().
RECURSIVE VSum(_)
VSum(vs) == IF vs = << >> THEN Zero ELSE VAdd(Head(vs), VSum(Tail(vs)))

\* velocity.multiply(-drag * velocity.magnitude())
DragOf(v, drag) ==
  IF v.nan THEN NaNV ELSE VMul(v, Mul(0 - drag, VMag(v)))

\* The velocity after one integration: v = v0 + a * dt.
NewVelocity(velocity, acceleration, deltaTime) ==
  VAdd(velocity, VMul(acceleration, deltaTime))

\* The position after one integration: p = p0 + v * dt, v the new velocity.
NewPosition(position, velocity, deltaTime) ==
  VAdd(position, VMul(velocity, deltaTime))

\* The end of integrate: the velocities, then the position from the new
\* velocity, and the pending forces and torques cleared.
Advance(b, acc, angAcc, vel, deltaTime) ==
  [b EXCEPT !.acceleration = acc, !.angularAcceleration = angAcc,
            !.velocity = vel,
            !.angularVelocity = NewVelocity(@, angAcc, deltaTime),
            !.position = NewPosition(@, vel, deltaTime),
            !.forces = << >>, !.torques = << >>]

\* explicit Euler: the position advanced by the velocity before the update
AccelerateExplicit(b, acc, angAcc, deltaTime) ==
  [Advance(b, acc, angAcc, NewVelocity(b.velocity, acc, deltaTime), deltaTime)
     EXCEPT !.position = NewPosition(b.position, b.velocity, deltaTime)]

\* integrate from the accelerations on
Accelerate(b, acc, angAcc, deltaTime) ==
  Advance(b, acc, angAcc, NewVelocity(b.velocity, acc, deltaTime), deltaTime)

\* integrate without its early return for a static body
IntegrateStaticToo(b, deltaTime) ==
  IF b.isKinematic
  THEN Accelerate(b, b.acceleration, b.angularAcceleration, deltaTime)
  ELSE Accelerate(b,
         VMul(VAdd(VSum(b.forces), DragOf(b.velocity, b.drag)),
              b.inverseMass),
         VMul(VAdd(VSum(b.torques),
                   DragOf(b.angularVelocity, b.angularDrag)),
              b.inverseMass),
         deltaTime)

\* RigidBody.integrate(deltaTime): a kinematic body keeps its accelerations
Integrate(b, deltaTime) ==
  IF b.isStatic THEN b
  ELSE IF b.isKinematic
  THEN Accelerate(b, b.acceleration, b.angularAcceleration, deltaTime)
  ELSE Accelerate(b,
         VMul(VAdd(VSum(b.forces), DragOf(b.velocity, b.drag)),
              b.inverseMass),
         VMul(VAdd(VSum(b.torques),
                   DragOf(b.angularVelocity, b.angularDrag)),
              b.inverseMass),
         deltaTime)

\* ------------------------------------------------------------------------
\* Colliders and the narrow phase
\* ------------------------------------------------------------------------
\* A collider is [kind, rigidbody, size, radius]: kind "box" reads size,
\* kind "sphere" reads radius; rigidbody is the id of its body.  The narrow
\* phase reads the bodies' positions from bs, the function from body ids to
\* bodies.

\* new BoxCollider(rigidbody, size)
BoxCollider(rigidbody, size) ==
  [kind |-> "box", rigidbody |-> rigidbody, size |-> size, radius |-> 0]

\* new SphereCollider(rigidbody, radius)
SphereCollider(rigidbody, radius) ==
  [kind |-> "sphere", rigidbody |-> rigidbody, size |-> Zero, radius |-> radius]

\* BoxCollider.getAABB / SphereCollider.getAABB
GetAABB(c, bs) ==
  LET position == bs[c.rigidbody].position
      halfSize == IF c.kind = "box" THEN VMul(c.size, S \div 2)
                  ELSE Vec(c.radius, c.radius, c.radius)
  IN AABB(VSub(position, halfSize), VAdd(position, halfSize))

\* The null of checkCollision.
NoCollision ==
  [hit |-> FALSE, bodyA |-> 0, bodyB |-> 0, contactPoint |-> Zero,
   contactNormal |-> Zero, penetrationDepth |-> 0]

\* A Collision record.
Contact(bodyA, bodyB, contactPoint, contactNormal, penetrationDepth) ==
  [hit |-> TRUE, bodyA |-> bodyA, bodyB |-> bodyB,
   contactPoint |-> contactPoint, contactNormal |-> contactNormal,
   penetrationDepth |-> penetrationDepth]

\* checkBoxCollision from the overlaps on: the axis of least overlap (x
\* before y before z), turned towards B
BoxBoxAxis(bodyA, bodyB, ox, oy, oz, direction, contactPoint) ==
  LET min1 == IF oy < ox THEN oy ELSE ox
      normal1 == IF oy < ox THEN Vec(0, S, 0) ELSE Vec(S, 0, 0)
      minOverlap == IF oz < min1 THEN oz ELSE min1
      normal2 == IF oz < min1 THEN Vec(0, 0, S) ELSE normal1
      normal == IF VDot(normal2, direction) < 0 THEN VMul(normal2, 0 - S)
                ELSE normal2
  IN Contact(bodyA, bodyB, contactPoint, normal, minOverlap)

\* checkBoxCollision from the two AABBs on
BoxBoxContact(bodyA, bodyB, aabb1, aabb2, pa, pb) ==
  IF ~Intersects(aabb1, aabb2) THEN NoCollision
  ELSE BoxBoxAxis(bodyA, bodyB,
         Min2(aabb1.max.x, aabb2.max.x) - Max2(aabb1.min.x, aabb2.min.x),
         Min2(aabb1.max.y, aabb2.max.y) - Max2(aabb1.min.y, aabb2.min.y),
         Min2(aabb1.max.z, aabb2.max.z) - Max2(aabb1.min.z, aabb2.min.z),
         VSub(pb, pa), VMul(VAdd(pa, pb), S \div 2))

\* BoxCollider.checkBoxCollision
CheckBoxBox(a, b, bs) ==
  BoxBoxContact(a.rigidbody, b.rigidbody, GetAABB(a, bs), GetAABB(b, bs),
                bs[a.rigidbody].position, bs[b.rigidbody].position)

\* The closest point of an AABB to a point.
ClosestPoint(aabb, p) ==
  Vec(Max2(aabb.min.x, Min2(p.x, aabb.max.x)),
      Max2(aabb.min.y, Min2(p.y, aabb.max.y)),
      Max2(aabb.min.z, Min2(p.z, aabb.max.z)))

\* checkSphereCollision from the distance on: null only when distance > radius
BoxSphereAt(bodyA, bodyB, radius, sphereCenter, closestPoint, distance) ==
  IF distance > radius THEN NoCollision
  ELSE Contact(bodyA, bodyB, closestPoint,
               VNormalize(VSub(sphereCenter, closestPoint)),
               radius - distance)

\* checkSphereCollision from the closest point on
BoxSphereContact(bodyA, bodyB, radius, sphereCenter, closestPoint) ==
  BoxSphereAt(bodyA, bodyB, radius, sphereCenter, closestPoint,
              VDist(sphereCenter, closestPoint))

\* BoxCollider.checkSphereCollision
CheckBoxSphere(box, sphere, bs) ==
  BoxSphereContact(box.rigidbody, sphere.rigidbody, sphere.radius,
                   bs[sphere.rigidbody].position,
                   ClosestPoint(GetAABB(box, bs),
                                bs[sphere.rigidbody].position))

\* The contact of two overlapping spheres.
SphereSphereContact(bodyA, bodyB, pa, radiusA, normal, penetrationDepth) ==
  Contact(bodyA, bodyB,
          VAdd(pa, VMul(normal, radiusA - Mul(penetrationDepth, S \div 2))),
          normal, penetrationDepth)

\* checkSphereCollision from the distance on: null when distance >= totalRadius
SphereSphereAt(a, b, pa, pb, distance, totalRadius) ==
  IF distance >= totalRadius THEN NoCollision
  ELSE SphereSphereContact(a.rigidbody, b.rigidbody, pa, a.radius,
                           VNormalize(VSub(pb, pa)), totalRadius - distance)

\* SphereCollider.checkSphereCollision
CheckSphereSphere(a, b, bs) ==
  SphereSphereAt(a, b, bs[a.rigidbody].position, bs[b.rigidbody].position,
                 VDist(bs[a.rigidbody].position, bs[b.rigidbody].position),
                 a.radius + b.radius)

\* SphereCollider.checkCollision on a box: the box's result with the bodies
\* swapped and the normal flipped.
\* the bodies exchanged and the normal left as the box reported it
SwapContactKeepNormal(collision) ==
  IF collision.hit
  THEN Contact(collision.bodyB, collision.bodyA, collision.contactPoint,
               collision.contactNormal, collision.penetrationDepth)
  ELSE NoCollision

SwapContact(collision) ==
  IF collision.hit
  THEN Contact(collision.bodyB, collision.bodyA, collision.contactPoint,
               VMul(collision.contactNormal, 0 - S),
               collision.penetrationDepth)
  ELSE NoCollision

\* BoxCollider.checkCollision / SphereCollider.checkCollision
CheckCollision(a, b, bs) ==
  IF a.kind = "box"
  THEN IF b.kind = "box" THEN CheckBoxBox(a, b, bs)
       ELSE CheckBoxSphere(a, b, bs)
  ELSE IF b.kind = "sphere" THEN CheckSphereSphere(a, b, bs)
       ELSE SwapContact(CheckBoxSphere(b, a, bs))

\* ------------------------------------------------------------------------
\* PhysicsWorld: the fixed update
\* ------------------------------------------------------------------------
\* The operators below take the world's fields as arguments: bs the bodies
\* (by id), defs the collider objects (by id), rbs and cols the two
\* registries (sequences of ids, in insertion order).

\* The constructor's configuration, and the dense profile.
DefaultTimeStep == S \div 60

DefaultMaxSubSteps == 5

DefaultIterations == 8

DefaultMaxObjects == 200

DenseTimeStep == S \div 120

DenseMaxSubSteps == 8

DenseIterations == 12

\* The least limit setMaxObjects keeps.
MinMaxObjects == 10

\* new Vector3D(0, 9.81, 0)
DefaultGravity == Vec(0, (981 * S) \div 100, 0)

\* detectCollisions' broad-phase margin 0.01 and penetration threshold 0.001.
BroadPhaseMargin == S \div 100

MinPenetration == S \div 1000

\* separateObjects' separationPercent 0.9 and slop 0.005.
SeparationPercent == (9 * S) \div 10

Slop == (5 * S) \div 1000

\* applyFriction's 1e-6, rounded up to the least positive number of the model.
TangentEpsilon == 1

\* PhysicsWorld.applyGravity, over the registry from its k-th entry on
RECURSIVE ApplyGravityFrom(_, _, _, _)
ApplyGravityFrom(bs, rbs, gravity, k) ==
  IF k > Len(rbs) THEN bs
  ELSE LET b == bs[rbs[k]]
           bs1 == IF b.useGravity /\ ~b.isStatic /\ ~b.isKinematic
                  THEN [bs EXCEPT ![rbs[k]] =
                          BodyAddForce(b, VMul(gravity, b.mass))]
                  ELSE bs
       IN ApplyGravityFrom(bs1, rbs, gravity, k + 1)

ApplyGravity(bs, rbs, gravity) == ApplyGravityFrom(bs, rbs, gravity, 1)

\* fixedUpdate's integration loop, over the registry from its k-th entry on
RECURSIVE IntegrateFrom(_, _, _, _)
IntegrateFrom(bs, rbs, deltaTime, k) ==
  IF k > Len(rbs) THEN bs
  ELSE IntegrateFrom([bs EXCEPT ![rbs[k]] = Integrate(@, deltaTime)],
                     rbs, deltaTime, k + 1)

IntegrateAll(bs, rbs, deltaTime) == IntegrateFrom(bs, rbs, deltaTime, 1)

\* the test with the minimum penetration itself let through
KeepContactInclusive(collision) ==
  IF collision.hit /\ collision.penetrationDepth >= MinPenetration
  THEN << collision >>
  ELSE << >>

\* detectCollisions' test on a narrow-phase result
KeepContact(collision) ==
  IF collision.hit /\ collision.penetrationDepth > MinPenetration
  THEN << collision >>
  ELSE << >>

\* One pair of detectCollisions: the contact it pushes, or none.
DetectPair(colliderA, colliderB, bs) ==
  IF bs[colliderA.rigidbody].isStatic /\ bs[colliderB.rigidbody].isStatic
  THEN << >>
  ELSE IF ~Intersects(Expand(GetAABB(colliderA, bs), BroadPhaseMargin),
                      Expand(GetAABB(colliderB, bs), BroadPhaseMargin))
  THEN << >>
  ELSE KeepContact(CheckCollision(colliderA, colliderB, bs))

\* detectCollisions' double loop from the pair (i, j) on
RECURSIVE DetectFrom(_, _, _, _, _)
DetectFrom(bs, defs, cols, i, j) ==
  IF i > Len(cols) THEN << >>
  ELSE IF j > Len(cols) THEN DetectFrom(bs, defs, cols, i + 1, i + 2)
  ELSE DetectPair(defs[cols[i]], defs[cols[j]], bs)
       \o DetectFrom(bs, defs, cols, i, j + 1)

\* PhysicsWorld.detectCollisions: the new collision list
DetectCollisions(bs, defs, cols) == DetectFrom(bs, defs, cols, 1, 2)

\* body.position -= v * inverseMass, a static body skipped
SubPosition(bs, id, v) ==
  IF bs[id].isStatic THEN bs
  ELSE [bs EXCEPT ![id].position = VSub(@, VMul(v, bs[id].inverseMass))]

\* body.position += v * inverseMass, a static body skipped
AddPosition(bs, id, v) ==
  IF bs[id].isStatic THEN bs
  ELSE [bs EXCEPT ![id].position = VAdd(@, VMul(v, bs[id].inverseMass))]

\* max(penetration - slop, 0) / totalInverseMass * separationPercent
CorrectionMagnitude(penetration, totalInverseMass) ==
  Mul(Div(Max2(penetration - Slop, 0), totalInverseMass), SeparationPercent)

\* separateObjects from the correction on: A first, then B
SeparateBy(bs, bodyA, bodyB, correction) ==
  AddPosition(SubPosition(bs, bodyA, correction), bodyB, correction)

\* no positional correction at all
SeparateObjectsSkipped(bs, bodyA, bodyB, normal, penetration) == bs

\* PhysicsWorld.separateObjects
SeparateObjects(bs, bodyA, bodyB, normal, penetration) ==
  IF bs[bodyA].inverseMass + bs[bodyB].inverseMass = 0 THEN bs
  ELSE SeparateBy(bs, bodyA, bodyB,
         VMul(normal,
              CorrectionMagnitude(penetration,
                bs[bodyA].inverseMass + bs[bodyB].inverseMass)))

\* The velocity of a body becomes NaN, a static body skipped.
PoisonVelocity(bs, id) ==
  IF bs[id].isStatic THEN bs ELSE [bs EXCEPT ![id].velocity = NaNV]

\* The velocities of the non-static bodies among bodyA, bodyB become NaN.
PoisonVelocities(bs, bodyA, bodyB) ==
  PoisonVelocity(PoisonVelocity(bs, bodyA), bodyB)

\* body.velocity -= v * inverseMass, a static body skipped
SubVelocity(bs, id, v) ==
  IF bs[id].isStatic THEN bs
  ELSE [bs EXCEPT ![id].velocity = VSub(@, VMul(v, bs[id].inverseMass))]

\* body.velocity += v * inverseMass, a static body skipped
AddVelocity(bs, id, v) ==
  IF bs[id].isStatic THEN bs
  ELSE [bs EXCEPT ![id].velocity = VAdd(@, VMul(v, bs[id].inverseMass))]

\* The impulse v taken from A and given to B (the end of resolveCollision
\* and of applyFriction).
ApplyImpulse(bs, bodyA, bodyB, v) ==
  AddVelocity(SubVelocity(bs, bodyA, v), bodyB, v)

\* Math.max(-maxFriction, Math.min(frictionImpulse, maxFriction))
ClampFriction(frictionImpulse, maxFriction) ==
  Max2(0 - maxFriction, Min2(frictionImpulse, maxFriction))

\* applyFriction from the tangent direction on
FrictionAlong(bs, bodyA, bodyB, relativeVelocity, normalImpulse, tangentDirection) ==
  ApplyImpulse(bs, bodyA, bodyB,
    VMul(tangentDirection,
         ClampFriction(
           Div(0 - VDot(relativeVelocity, tangentDirection),
               bs[bodyA].inverseMass + bs[bodyB].inverseMass),
           Mul(Abs(normalImpulse),
               Sqrt(Mul(bs[bodyA].friction, bs[bodyB].friction))))))

\* applyFriction from the tangent on: nothing below the threshold
FrictionFrom(bs, bodyA, bodyB, relativeVelocity, normalImpulse, tangent) ==
  IF VMag(tangent) < TangentEpsilon THEN bs
  ELSE FrictionAlong(bs, bodyA, bodyB, relativeVelocity, normalImpulse,
                     VNormalize(tangent))

\* PhysicsWorld.applyFriction, all its numbers finite
ApplyFriction(bs, bodyA, bodyB, normal, relativeVelocity, normalImpulse) ==
  FrictionFrom(bs, bodyA, bodyB, relativeVelocity, normalImpulse,
    VSub(relativeVelocity, VMul(normal, VDot(relativeVelocity, normal))))

\* the impulse scalar without the division by the total inverse mass
ImpulseScalarUndivided(restitution, velocityAlongNormal, totalInverseMass) ==
  Mul(0 - (S + restitution), velocityAlongNormal)

\* The impulse scalar j = -(1 + restitution) * velocityAlongNormal / total.
ImpulseScalar(restitution, velocityAlongNormal, totalInverseMass) ==
  Div(Mul(0 - (S + restitution), velocityAlongNormal), totalInverseMass)

\* resolveCollision from j on: the normal impulse, then friction
ResolveImpulse(bs1, collision, relativeVelocity, j) ==
  [bs |-> ApplyFriction(
            ApplyImpulse(bs1, collision.bodyA, collision.bodyB,
                         VMul(collision.contactNormal, j)),
            collision.bodyA, collision.bodyB, collision.contactNormal,
            relativeVelocity, j),
   resolved |-> TRUE]

\* resolveCollision from velocityAlongNormal on, without the test that lets
\* separating bodies go
ResolveAlongAlways(bs1, collision, relativeVelocity, velocityAlongNormal) ==
  IF bs1[collision.bodyA].inverseMass + bs1[collision.bodyB].inverseMass = 0
  THEN [bs |-> PoisonVelocities(bs1, collision.bodyA, collision.bodyB),
        resolved |-> TRUE]
  ELSE ResolveImpulse(bs1, collision, relativeVelocity,
         ImpulseScalar(Min2(bs1[collision.bodyA].restitution,
                            bs1[collision.bodyB].restitution),
                       velocityAlongNormal,
                       bs1[collision.bodyA].inverseMass
                         + bs1[collision.bodyB].inverseMass))

\* resolveCollision from velocityAlongNormal on.  A zero total inverse mass
\* makes j = x / 0, and j * normal * 0 is NaN in every component.
ResolveAlong(bs1, collision, relativeVelocity, velocityAlongNormal) ==
  IF velocityAlongNormal > 0 THEN [bs |-> bs1, resolved |-> FALSE]
  ELSE IF bs1[collision.bodyA].inverseMass
          + bs1[collision.bodyB].inverseMass = 0
  THEN [bs |-> PoisonVelocities(bs1, collision.bodyA, collision.bodyB),
        resolved |-> TRUE]
  ELSE ResolveImpulse(bs1, collision, relativeVelocity,
         ImpulseScalar(Min2(bs1[collision.bodyA].restitution,
                            bs1[collision.bodyB].restitution),
                       velocityAlongNormal,
                       bs1[collision.bodyA].inverseMass
                         + bs1[collision.bodyB].inverseMass))

\* resolveCollision from the relative velocity on.  A NaN relative velocity
\* passes the test velocityAlongNormal > 0 and makes every later number NaN.
ResolveRelative(bs1, collision, relativeVelocity) ==
  IF relativeVelocity.nan
  THEN [bs |-> PoisonVelocities(bs1, collision.bodyA, collision.bodyB),
        resolved |-> TRUE]
  ELSE ResolveAlong(bs1, collision, relativeVelocity,
                    VDot(relativeVelocity, collision.contactNormal))

\* resolveCollision after separateObjects
ResolveSeparated(bs1, collision) ==
  ResolveRelative(bs1, collision,
    VSub(bs1[collision.bodyB].velocity, bs1[collision.bodyA].velocity))

\* PhysicsWorld.resolveCollision: [bs, resolved]
ResolveCollision(bs, collision) ==
  IF bs[collision.bodyA].isStatic /\ bs[collision.bodyB].isStatic
  THEN [bs |-> bs, resolved |-> FALSE]
  ELSE IF collision.penetrationDepth <= MinPenetration
  THEN [bs |-> bs, resolved |-> FALSE]
  ELSE ResolveSeparated(
         SeparateObjects(bs, collision.bodyA, collision.bodyB,
                         collision.contactNormal, collision.penetrationDepth),
         collision)

\* One pass of resolveCollisions over the list, from its k-th entry on:
\* [bs, hasCollisions].
RECURSIVE ResolvePass(_, _, _, _)
ResolvePassNext(r, list, k, hasCollisions) ==
  ResolvePass(r.bs, list, k + 1, hasCollisions \/ r.resolved)

ResolvePass(bs, list, k, hasCollisions) ==
  IF k > Len(list) THEN [bs |-> bs, hasCollisions |-> hasCollisions]
  ELSE ResolvePassNext(ResolveCollision(bs, list[k]), list, k, hasCollisions)

\* PhysicsWorld.resolveCollisions from pass `iteration` on:
\* [bs, collisions, passes, detections].
RECURSIVE ResolveFrom(_, _, _, _, _, _, _, _)
AfterPassDetecting(r, defs, cols, list, iterations, iteration, passes, detections) ==
  IF ~r.hasCollisions
  THEN [bs |-> r.bs, collisions |-> list, passes |-> passes + 1,
        detections |-> detections]
  ELSE ResolveFrom(r.bs, defs, cols, DetectCollisions(r.bs, defs, cols),
                   iterations, iteration + 1, passes + 1, detections + 1)

AfterPass(r, defs, cols, list, iterations, iteration, passes, detections) ==
  IF ~r.hasCollisions
  THEN [bs |-> r.bs, collisions |-> list, passes |-> passes + 1,
        detections |-> detections]
  ELSE IF iteration < iterations - 1
  THEN ResolveFrom(r.bs, defs, cols, DetectCollisions(r.bs, defs, cols),
                   iterations, iteration + 1, passes + 1, detections + 1)
  ELSE ResolveFrom(r.bs, defs, cols, list, iterations, iteration + 1,
                   passes + 1, detections)

ResolveFrom(bs, defs, cols, list, iterations, iteration, passes, detections) ==
  IF iteration >= iterations
  THEN [bs |-> bs, collisions |-> list, passes |-> passes,
        detections |-> detections]
  ELSE AfterPass(ResolvePass(bs, list, 1, FALSE), defs, cols, list,
                 iterations, iteration, passes, detections)

\* fixedUpdate after the integration: detection, then resolution
DetectAndResolve(bs2, defs, cols, iterations) ==
  ResolveFrom(bs2, defs, cols, DetectCollisions(bs2, defs, cols), iterations,
              0, 0, 1)

\* fixedUpdate with the bodies integrated after the collisions are resolved
FixedUpdateDetectFirst(bs, defs, rbs, cols, gravity, iterations, deltaTime) ==
  [DetectAndResolve(ApplyGravity(bs, rbs, gravity), defs, cols, iterations)
     EXCEPT !.bs = IntegrateAll(@, rbs, deltaTime)]

\* PhysicsWorld.fixedUpdate: gravity, integration, detection, resolution
FixedUpdate(bs, defs, rbs, cols, gravity, iterations, deltaTime) ==
  DetectAndResolve(
    IntegrateAll(ApplyGravity(bs, rbs, gravity), rbs, deltaTime),
    defs, cols, iterations)

\* ------------------------------------------------------------------------
\* PhysicsWorld.raycast, in extended numbers
\* ------------------------------------------------------------------------
\* An extended number is finite, an infinity (v its sign) or NaN.

Fin(n) == [k |-> "fin", v |-> n]

Inf(sign) == [k |-> "inf", v |-> sign]

NaN == [k |-> "nan", v |-> 0]

\* a < b of the program: false when either is NaN
ExtLt(a, b) ==
  /\ a.k # "nan" /\ b.k # "nan"
  /\ IF a.k = "fin" /\ b.k = "fin" THEN a.v < b.v
     ELSE IF a.k = "inf" /\ b.k = "inf" THEN a.v < b.v
     ELSE IF a.k = "inf" THEN a.v < 0
     ELSE b.v > 0

\* Math.min / Math.max: NaN when either is NaN
ExtMin(a, b) ==
  IF a.k = "nan" \/ b.k = "nan" THEN NaN ELSE IF ExtLt(b, a) THEN b ELSE a

ExtMax(a, b) ==
  IF a.k = "nan" \/ b.k = "nan" THEN NaN ELSE IF ExtLt(a, b) THEN b ELSE a

\* 1 / d for a finite d: 1 / 0 is Infinity
ExtInv(d) == IF d = 0 THEN Inf(1) ELSE Fin(Div(S, d))

\* n * e for a finite n: 0 * Infinity is NaN
ExtMul(n, e) ==
  IF e.k = "fin" THEN Fin(Mul(n, e.v))
  ELSE IF e.k = "nan" \/ n = 0 THEN NaN
  ELSE Inf(Sgn(n) * e.v)

\* The null of raycastAABB.
NoHit == [k |-> "null", v |-> 0]

\* raycastAABB from tmin and tmax on
SlabResult(tmin, tmax) ==
  IF ExtLt(tmax, Fin(0)) \/ ExtLt(tmax, tmin) THEN NoHit
  ELSE IF ExtLt(Fin(0), tmin) THEN tmin ELSE tmax

\* raycastAABB from t1 .. t6 on
SlabTimes(t1, t2, t3, t4, t5, t6) ==
  SlabResult(
    ExtMax(ExtMax(ExtMin(t1, t2), ExtMin(t3, t4)), ExtMin(t5, t6)),
    ExtMin(ExtMin(ExtMax(t1, t2), ExtMax(t3, t4)), ExtMax(t5, t6)))

\* raycastAABB from invDir on
SlabsOf(origin, invX, invY, invZ, aabb) ==
  SlabTimes(ExtMul(aabb.min.x - origin.x, invX),
            ExtMul(aabb.max.x - origin.x, invX),
            ExtMul(aabb.min.y - origin.y, invY),
            ExtMul(aabb.max.y - origin.y, invY),
            ExtMul(aabb.min.z - origin.z, invZ),
            ExtMul(aabb.max.z - origin.z, invZ))

\* PhysicsWorld.raycastAABB: a distance (possibly NaN) or null; the AABB of
\* a body at a NaN position makes every t NaN
RaycastAABB(origin, direction, aabb) ==
  IF aabb.min.nan \/ aabb.max.nan THEN NaN
  ELSE SlabsOf(origin, ExtInv(direction.x), ExtInv(direction.y),
               ExtInv(direction.z), aabb)

\* raycast's loop over the colliders from the k-th on:
\* [body, distance], body 0 for null
RECURSIVE RaycastFrom(_, _, _, _, _, _, _, _)
RaycastNext(bs, defs, cols, origin, direction, k, closestBody, closestDistance, distance) ==
  IF distance.k # "null" /\ ExtLt(distance, closestDistance)
  THEN RaycastFrom(bs, defs, cols, origin, direction, k + 1,
                   defs[cols[k]].rigidbody, distance)
  ELSE RaycastFrom(bs, defs, cols, origin, direction, k + 1, closestBody,
                   closestDistance)

RaycastFrom(bs, defs, cols, origin, direction, k, closestBody, closestDistance) ==
  IF k > Len(cols)
  THEN [body |-> closestBody, distance |-> closestDistance]
  ELSE RaycastNext(bs, defs, cols, origin, direction, k, closestBody,
                   closestDistance,
                   RaycastAABB(origin, direction, GetAABB(defs[cols[k]], bs)))

\* raycast's loop run: closestBody (0 for null) and closestDistance at its end
RaycastLoop(bs, defs, cols, origin, direction, maxDistance) ==
  RaycastFrom(bs, defs, cols, origin, VNormalize(direction), 1, 0,
              maxDistance)

\* PhysicsWorld.raycast(origin, direction, maxDistance): the body, or 0
Raycast(bs, defs, cols, origin, direction, maxDistance) ==
  RaycastLoop(bs, defs, cols, origin, direction, maxDistance).body

\* ------------------------------------------------------------------------
\* The state
\* ------------------------------------------------------------------------

VARIABLES
  bodies,               \* the RigidBody objects the caller has built, by id
  defs,                 \* the Collider objects the caller has built, by id
  rigidbodies,          \* PhysicsWorld.rigidbodies (ids, insertion order)
  colliders,            \* PhysicsWorld.colliders (ids, insertion order)
  collisions,           \* PhysicsWorld.collisions
  gravity,              \* PhysicsWorld.gravity
  timeStep,             \* PhysicsWorld.timeStep
  maxSubSteps,          \* PhysicsWorld.maxSubSteps
  accumulator,          \* PhysicsWorld.accumulator
  collisionIterations,  \* PhysicsWorld.collisionIterations
  maxObjectsPerFrame,   \* PhysicsWorld.maxObjectsPerFrame
  obs,                  \* what an observer of the calls has counted
  result                \* what the last query returned

vars ==
  << bodies, defs, rigidbodies, colliders, collisions, gravity, timeStep,
     maxSubSteps, accumulator, collisionIterations, maxObjectsPerFrame, obs,
     result >>

worldConfig ==
  << gravity, timeStep, maxSubSteps, collisionIterations, maxObjectsPerFrame >>

\* The bounds of the exploration: step calls, and calls of anything else.
MaxSteps == 2

MaxCalls == 2

\* Before any query.
NoResult == [call |-> "none"]

\* The observer's counters before any call.
ObsInit ==
  [calls |-> 0, stepCalls |-> 0, subUpdates |-> 0, totalDt |-> 0,
   lastDt |-> 0, lastAcc |-> 0, lastSub |-> 0, timeStepChanged |-> FALSE,
   warnings |-> 0, lastCall |-> "none", lastArg |-> 0]

\* The observer after a call other than step: the operation called, and the
\* id of the body or collider it was called with (0 when it takes none).
Called(op, arg) ==
  obs' = [obs EXCEPT !.calls = @ + 1, !.lastCall = op, !.lastArg = arg]

\* new PhysicsWorld(): the configuration fields
WorldConfigInit ==
  /\ gravity = DefaultGravity
  /\ timeStep = DefaultTimeStep
  /\ maxSubSteps = DefaultMaxSubSteps
  /\ accumulator = 0
  /\ collisionIterations = DefaultIterations
  /\ maxObjectsPerFrame = DefaultMaxObjects

\* The position of an id in a registry, 0 when absent (indexOf).
IndexOf(seq, id) ==
  IF \E k \in 1..Len(seq) : seq[k] = id
  THEN CHOOSE k \in 1..Len(seq) :
         seq[k] = id /\ \A m \in 1..(k - 1) : seq[m] # id
  ELSE 0

\* includes
Includes(seq, id) == IndexOf(seq, id) # 0

\* splice(index, 1)
Splice(seq, index) ==
  SubSeq(seq, 1, index - 1) \o SubSeq(seq, index + 1, Len(seq))

\* push without the includes test
PushAlways(seq, id) == Append(seq, id)

\* addRigidBody on a registry
PushUnique(seq, id) == IF Includes(seq, id) THEN seq ELSE Append(seq, id)

\* removeRigidBody / removeCollider on a registry
RemoveFrom(seq, id) ==
  IF IndexOf(seq, id) # 0 THEN Splice(seq, IndexOf(seq, id)) ELSE seq

\* ------------------------------------------------------------------------
\* PhysicsWorld: the operations
\* ------------------------------------------------------------------------

\* PhysicsWorld.addRigidBody
AddRigidBody(b) ==
  /\ obs.calls < MaxCalls
  /\ rigidbodies' = PushUnique(rigidbodies, b)
  /\ Called("addRigidBody", b)
  /\ UNCHANGED << bodies, defs, colliders, collisions, worldConfig,
                  accumulator, result >>

\* PhysicsWorld.removeRigidBody
RemoveRigidBody(b) ==
  /\ obs.calls < MaxCalls
  /\ rigidbodies' = RemoveFrom(rigidbodies, b)
  /\ Called("removeRigidBody", b)
  /\ UNCHANGED << bodies, defs, colliders, collisions, worldConfig,
                  accumulator, result >>

\* The registries after addCollider(c): a new collider over the limit is
\* dropped (with a console warning), and its body is not registered.
CollidersAfterAdd(cols, c, limit) ==
  IF Includes(cols, c) \/ Len(cols) >= limit THEN cols ELSE Append(cols, c)

\* the body registered before the limit is looked at
BodiesAfterAddUnchecked(rbs, cols, c, limit) ==
  IF Includes(cols, c) THEN rbs ELSE PushUnique(rbs, defs[c].rigidbody)

BodiesAfterAdd(rbs, cols, c, limit) ==
  IF Includes(cols, c) \/ Len(cols) >= limit THEN rbs
  ELSE PushUnique(rbs, defs[c].rigidbody)

\* addCollider's console.warn: 1 when the collider is dropped at the limit
WarningsOfAdd(cols, c, limit) ==
  IF ~Includes(cols, c) /\ Len(cols) >= limit THEN 1 ELSE 0

\* PhysicsWorld.addCollider
AddCollider(c) ==
  /\ obs.calls < MaxCalls
  /\ colliders' = CollidersAfterAdd(colliders, c, maxObjectsPerFrame)
  /\ rigidbodies' = BodiesAfterAdd(rigidbodies, colliders, c,
                                   maxObjectsPerFrame)
  /\ obs' = [obs EXCEPT !.calls = @ + 1,
                        !.lastCall = "addCollider",
                        !.lastArg = c,
                        !.warnings = @ + WarningsOfAdd(colliders, c,
                                                       maxObjectsPerFrame)]
  /\ UNCHANGED << bodies, defs, collisions, worldConfig, accumulator,
                  result >>

\* PhysicsWorld.removeCollider
RemoveCollider(c) ==
  /\ obs.calls < MaxCalls
  /\ colliders' = RemoveFrom(colliders, c)
  /\ Called("removeCollider", c)
  /\ UNCHANGED << bodies, defs, rigidbodies, collisions, worldConfig,
                  accumulator, result >>

\* PhysicsWorld.setGravity
SetGravity(g) ==
  /\ obs.calls < MaxCalls
  /\ gravity' = g
  /\ Called("setGravity", 0)
  /\ UNCHANGED << bodies, defs, rigidbodies, colliders, collisions, timeStep,
                  maxSubSteps, accumulator, collisionIterations,
                  maxObjectsPerFrame, result >>

\* PhysicsWorld.clear
Clear ==
  /\ obs.calls < MaxCalls
  /\ rigidbodies' = << >>
  /\ colliders' = << >>
  /\ collisions' = << >>
  /\ Called("clear", 0)
  /\ UNCHANGED << bodies, defs, worldConfig, accumulator, result >>

\* configureDenseScene that also empties the accumulator
ConfigureDenseSceneResetting(enable) ==
  /\ obs.calls < MaxCalls
  /\ collisionIterations' = IF enable THEN DenseIterations ELSE DefaultIterations
  /\ timeStep' = IF enable THEN DenseTimeStep ELSE DefaultTimeStep
  /\ maxSubSteps' = IF enable THEN DenseMaxSubSteps ELSE DefaultMaxSubSteps
  /\ accumulator' = 0
  /\ obs' = [obs EXCEPT !.calls = @ + 1,
                        !.lastCall = "configureDenseScene",
                        !.lastArg = IF enable THEN 1 ELSE 0,
                        !.timeStepChanged = @ \/ timeStep' # timeStep]
  /\ UNCHANGED << bodies, defs, rigidbodies, colliders, collisions, gravity,
                  maxObjectsPerFrame, result >>

\* PhysicsWorld.configureDenseScene
ConfigureDenseScene(enable) ==
  /\ obs.calls < MaxCalls
  /\ collisionIterations' = IF enable THEN DenseIterations ELSE DefaultIterations
  /\ timeStep' = IF enable THEN DenseTimeStep ELSE DefaultTimeStep
  /\ maxSubSteps' = IF enable THEN DenseMaxSubSteps ELSE DefaultMaxSubSteps
  /\ obs' = [obs EXCEPT !.calls = @ + 1,
                        !.lastCall = "configureDenseScene",
                        !.lastArg = IF enable THEN 1 ELSE 0,
                        !.timeStepChanged = @ \/ timeStep' # timeStep]
  /\ UNCHANGED << bodies, defs, rigidbodies, colliders, collisions, gravity,
                  accumulator, maxObjectsPerFrame, result >>

\* PhysicsWorld.setMaxObjects
SetMaxObjects(limit) ==
  /\ obs.calls < MaxCalls
  /\ maxObjectsPerFrame' = Max2(MinMaxObjects, limit)
  /\ Called("setMaxObjects", 0)
  /\ UNCHANGED << bodies, defs, rigidbodies, colliders, collisions, gravity,
                  timeStep, maxSubSteps, accumulator, collisionIterations,
                  result >>

\* step's loop condition, with the timestep strictly exceeded
StepLoopRunsStrict(acc, subSteps) ==
  acc > timeStep /\ subSteps < maxSubSteps

\* step's loop condition: a timestep is held and the cap is not reached
StepLoopRuns(acc, subSteps) ==
  acc >= timeStep /\ subSteps < maxSubSteps

\* step's loop left with the time that the cap kept it from consuming dropped
StepLoopEndDropping(bs, list, acc, subSteps) ==
  [bs |-> bs, collisions |-> list,
   accumulator |-> IF subSteps >= maxSubSteps THEN 0 ELSE acc,
   subSteps |-> subSteps]

\* step's loop left: what remains in the accumulator stays there
StepLoopEnd(bs, list, acc, subSteps) ==
  [bs |-> bs, collisions |-> list, accumulator |-> acc,
   subSteps |-> subSteps]

\* step's loop: [bs, collisions, accumulator, subSteps]
RECURSIVE StepLoop(_, _, _, _)
StepLoopNext(r, acc, subSteps) ==
  StepLoop(r.bs, r.collisions, acc - timeStep, subSteps + 1)

StepLoop(bs, list, acc, subSteps) ==
  IF StepLoopRuns(acc, subSteps)
  THEN CHOOSE after \in
         { StepLoopNext(r, acc, subSteps) :
             r \in { FixedUpdate(bs, defs, rigidbodies, colliders, gravity,
                                 collisionIterations, timeStep) } } : TRUE
  ELSE StepLoopEnd(bs, list, acc, subSteps)

\* PhysicsWorld.step(deltaTime), while fewer than limit calls were made
StepWithin(deltaTime, limit) ==
  /\ obs.stepCalls < limit
  /\ \E r \in { StepLoop(bodies, collisions, accumulator + deltaTime, 0) } :
        /\ bodies' = r.bs
        /\ collisions' = r.collisions
        /\ accumulator' = r.accumulator
        /\ obs' = [obs EXCEPT !.stepCalls = @ + 1,
                              !.lastCall = "step",
                              !.lastArg = 0,
                              !.subUpdates = @ + r.subSteps,
                              !.totalDt = @ + deltaTime,
                              !.lastDt = deltaTime,
                              !.lastAcc = accumulator,
                              !.lastSub = r.subSteps]
  /\ UNCHANGED << defs, rigidbodies, colliders, worldConfig, result >>

\* PhysicsWorld.step(deltaTime)
Step(deltaTime) == StepWithin(deltaTime, MaxSteps)

\* ------------------------------------------------------------------------
\* RigidBody: the operations, on the body b
\* ------------------------------------------------------------------------

BodyCall(b, after, op) ==
  /\ obs.calls < MaxCalls
  /\ bodies' = [bodies EXCEPT ![b] = after]
  /\ Called(op, b)
  /\ UNCHANGED << defs, rigidbodies, colliders, collisions, worldConfig,
                  accumulator, result >>

AddForce(b, force) == BodyCall(b, BodyAddForce(bodies[b], force), "addForce")

AddTorque(b, torque) == BodyCall(b, BodyAddTorque(bodies[b], torque), "addTorque")

AddForceAtPoint(b, force, point) ==
  BodyCall(b, BodyAddForceAtPoint(bodies[b], force, point), "addForceAtPoint")

SetMass(b, mass) == BodyCall(b, BodySetMass(bodies[b], mass), "setMass")

MakeStatic(b) == BodyCall(b, BodyMakeStatic(bodies[b]), "makeStatic")

MakeKinematic(b) == BodyCall(b, BodyMakeKinematic(bodies[b]), "makeKinematic")

MakeDynamic(b, mass) == BodyCall(b, BodyMakeDynamic(bodies[b], mass), "makeDynamic")

\* ------------------------------------------------------------------------
\* PhysicsWorld: the phases of fixedUpdate, run one at a time
\* ------------------------------------------------------------------------

\* detectCollisions() on the world as it stands
DetectCollisionsCall ==
  /\ obs.calls < MaxCalls
  /\ collisions' = DetectCollisions(bodies, defs, colliders)
  /\ result' = [call |-> "detectCollisions", before |-> bodies,
                list |-> collisions]
  /\ Called("detectCollisions", 0)
  /\ UNCHANGED << bodies, defs, rigidbodies, colliders, worldConfig,
                  accumulator >>

\* ------------------------------------------------------------------------
\* Queries: what the caller gets back
\* ------------------------------------------------------------------------

\* a.checkCollision(b), and b.checkCollision(a) on the same pair
CheckCollisionCall(a, b) ==
  /\ obs.calls < MaxCalls
  /\ result' = [call |-> "checkCollision", receiver |-> a, other |-> b,
                collision |-> CheckCollision(defs[a], defs[b], bodies),
                reverse |-> CheckCollision(defs[b], defs[a], bodies)]
  /\ Called("checkCollision", a)
  /\ UNCHANGED << bodies, defs, rigidbodies, colliders, collisions,
                  worldConfig, accumulator >>

\* world.raycast(origin, direction, maxDistance): the body returned (0 for
\* null), with the colliders the world held and the closestDistance the
\* loop ended with
RaycastCall(origin, direction, maxDistance) ==
  /\ obs.calls < MaxCalls
  /\ result' = [call |-> "raycast", origin |-> origin,
                direction |-> direction, maxDistance |-> maxDistance,
                colliders |-> colliders,
                body |-> Raycast(bodies, defs, colliders, origin, direction,
                                 maxDistance),
                closestDistance |->
                  RaycastLoop(bodies, defs, colliders, origin, direction,
                              maxDistance).distance]
  /\ Called("raycast", 0)
  /\ UNCHANGED << bodies, defs, rigidbodies, colliders, collisions,
                  worldConfig, accumulator >>

\* ------------------------------------------------------------------------
\* Spec: a scene with contacts, stepped, its bodies driven by their API
\* ------------------------------------------------------------------------
\* Body 1 is a static ground box; body 2 a box of mass 1 and body 3 a sphere
\* of mass 2, both resting 0.01 deep in the ground and overlapping each
\* other; body 4 is static, registered, and has no collider.  +y is down.

SceneBodies ==
  << BodyMakeStatic(NewRigidBody(0, Zero)),
     NewRigidBody(S, Vec(0, 0 - (99 * S) \div 100, 0)),
     NewRigidBody(2 * S, Vec((9 * S) \div 10, 0 - (99 * S) \div 100, 0)),
     BodyMakeStatic(NewRigidBody(S, Vec(10 * S, 0, 0))) >>

SceneColliders ==
  << BoxCollider(1, Vec(4 * S, S, 4 * S)),
     BoxCollider(2, Vec(S, S, S)),
     SphereCollider(3, S \div 2) >>

\* The bodies the caller drives, and what it passes.
OpBodies == {2, 3}

TorqueBodies == {2}

Forces == { Vec(30 * S, 0, 0) }

Torques == { Vec(0, S, 0) }

Points == { Vec(0, 0, S) }

Gravities == { Vec(3 * S, 10 * S, 0) }

Init ==
  /\ bodies = SceneBodies
  /\ defs = SceneColliders
  /\ rigidbodies = << 1, 2, 3, 4 >>
  /\ colliders = << 1, 2, 3 >>
  /\ collisions = << >>
  /\ WorldConfigInit
  /\ obs = ObsInit
  /\ result = NoResult

Next ==
  \/ Step(timeStep)
  \/ \E b \in OpBodies, f \in Forces : AddForce(b, f)
  \/ \E b \in TorqueBodies, t \in Torques : AddTorque(b, t)
  \/ \E b \in TorqueBodies, f \in Forces, p \in Points :
        AddForceAtPoint(b, f, p)
  \/ \E b \in OpBodies, m \in {0, S} : SetMass(b, m)
  \/ \E b \in OpBodies : MakeStatic(b)
  \/ \E b \in OpBodies : MakeKinematic(b)
  \/ \E b \in OpBodies : MakeDynamic(b, S)
  \/ \E g \in Gravities : SetGravity(g)

Spec == Init /\ [][Next]_vars

\* ------------------------------------------------------------------------
\* SpecBody: one body without a collider, constructed with any mass and
\* driven through its mode operations between steps
\* ------------------------------------------------------------------------

BodyMasses == { 0 - S, 0, S, 2 * S }

InitBody ==
  /\ \E m \in BodyMasses : bodies = << NewRigidBody(m, Zero) >>
  /\ defs = << >>
  /\ rigidbodies = << 1 >>
  /\ colliders = << >>
  /\ collisions = << >>
  /\ WorldConfigInit
  /\ obs = ObsInit
  /\ result = NoResult

NextBody ==
  \/ Step(timeStep)
  \/ \E f \in Forces : AddForce(1, f)
  \/ \E t \in Torques : AddTorque(1, t)
  \/ \E m \in BodyMasses : SetMass(1, m)
  \/ MakeStatic(1)
  \/ MakeKinematic(1)
  \/ \E m \in BodyMasses : MakeDynamic(1, m)

SpecBody == InitBody /\ [][NextBody]_vars

\* ------------------------------------------------------------------------
\* SpecTime: a body of mass 1 at rest with no collider, the world stepped by
\* frame times of any size and sign, with the dense-scene switch
\* ------------------------------------------------------------------------

DeltaTimes ==
  { 0 - DenseTimeStep, 0, DenseTimeStep, DefaultTimeStep, 13 * DenseTimeStep }

TimeGravity == Vec(0, 10 * S, 0)

InitTime ==
  /\ bodies = << NewRigidBody(S, Zero) >>
  /\ defs = << >>
  /\ rigidbodies = << 1 >>
  /\ colliders = << >>
  /\ collisions = << >>
  /\ WorldConfigInit
  /\ obs = ObsInit
  /\ result = NoResult

NextTime ==
  \/ \E dt \in DeltaTimes : Step(dt)
  \/ \E enable \in BOOLEAN : ConfigureDenseScene(enable)
  \/ SetGravity(TimeGravity)
  \/ \E f \in Forces : AddForce(1, f)

SpecTime == InitTime /\ [][NextTime]_vars

\* ------------------------------------------------------------------------
\* SpecReg: the registries of a world whose collider limit was set to its
\* minimum or to 11 and that already holds 9 or 10 colliders
\* ------------------------------------------------------------------------
\* Colliders 1..11 are boxes on the bodies 1..11; collider 12 is a second
\* box on body 11.

RegBodies == [b \in 1..11 |-> NewRigidBody(S, Vec(3 * S * b, 0, 0))]

RegColliders ==
  [c \in 1..12 |-> BoxCollider(IF c = 12 THEN 11 ELSE c, Vec(S, S, S))]

RegCalled == { 8, 9, 10, 11, 12 }

RegLimits == { 0, 11 }

InitReg ==
  /\ bodies = RegBodies
  /\ defs = RegColliders
  /\ \E n \in { 9, 10 } :
        /\ rigidbodies = [k \in 1..n |-> k]
        /\ colliders = [k \in 1..n |-> k]
  /\ collisions = << >>
  /\ gravity = DefaultGravity
  /\ timeStep = DefaultTimeStep
  /\ maxSubSteps = DefaultMaxSubSteps
  /\ accumulator = 0
  /\ collisionIterations = DefaultIterations
  /\ \E limit \in RegLimits : maxObjectsPerFrame = Max2(MinMaxObjects, limit)
  /\ obs = ObsInit
  /\ result = NoResult

NextReg ==
  \/ \E c \in RegCalled : AddCollider(c)
  \/ \E c \in RegCalled : RemoveCollider(c)
  \/ \E b \in RegCalled \ {12} : AddRigidBody(b)
  \/ \E b \in RegCalled \ {12} : RemoveRigidBody(b)
  \/ \E limit \in RegLimits : SetMaxObjects(limit)
  \/ Clear

SpecReg == InitReg /\ [][NextReg]_vars

\* ------------------------------------------------------------------------
\* SpecNarrow: a box of half-extent 1 (or a sphere of radius 1) at the
\* origin and a sphere (or a box) placed around it, inside it and on its
\* faces, edges and corners
\* ------------------------------------------------------------------------

NarrowCoordinates ==
  { 0 - (3 * S) \div 2, 0, S \div 2, S, (3 * S) \div 2, 2 * S }

NarrowRadii == { S \div 2, S }

\* The kinds of the two colliders; the call in the other direction gives
\* the pairing of a sphere with a box.
NarrowShapes ==
  { << "box", "sphere" >>, << "box", "box" >>, << "sphere", "sphere" >> }

\* The collider of the given kind on the body b: a sphere of that radius or
\* the cube around it.
NarrowCollider(shape, b, radius) ==
  IF shape = "box" THEN BoxCollider(b, Vec(2 * radius, 2 * radius, 2 * radius))
  ELSE SphereCollider(b, radius)

InitNarrow ==
  /\ \E x \in NarrowCoordinates, y \in NarrowCoordinates,
        z \in { 0, (3 * S) \div 2 } :
        bodies = << NewRigidBody(S, Zero), NewRigidBody(S, Vec(x, y, z)) >>
  /\ \E radius \in NarrowRadii, shapes \in NarrowShapes :
        defs = << NarrowCollider(shapes[1], 1, S),
                  NarrowCollider(shapes[2], 2, radius) >>
  /\ rigidbodies = << 1, 2 >>
  /\ colliders = << 1, 2 >>
  /\ collisions = << >>
  /\ WorldConfigInit
  /\ obs = ObsInit
  /\ result = NoResult

NextNarrow ==
  \/ CheckCollisionCall(1, 2)
  \/ CheckCollisionCall(2, 1)

SpecNarrow == InitNarrow /\ [][NextNarrow]_vars

\* ------------------------------------------------------------------------
\* SpecRay: rays cast into a world that holds a static box of half-extent 1
\* at (5,0,0); a box at (8,0,0) and a sphere at (0,5,0) can be added
\* ------------------------------------------------------------------------

RayBodies ==
  << BodyMakeStatic(NewRigidBody(S, Vec(5 * S, 0, 0))),
     BodyMakeStatic(NewRigidBody(S, Vec(8 * S, 0, 0))),
     NewRigidBody(S, Vec(0, 5 * S, 0)) >>

RayColliders ==
  << BoxCollider(1, Vec(2 * S, 2 * S, 2 * S)),
     BoxCollider(2, Vec(2 * S, 2 * S, 2 * S)),
     SphereCollider(3, S) >>

RayOrigins ==
  { Zero, Vec(0, S \div 2, 0), Vec(0, S, 0), Vec(0, 0, 0 - S),
    Vec(0, 2 * S, 0), Vec(5 * S, 0, 0), Vec(6 * S, 0, 0), Vec(7 * S, S, 0),
    Vec(10 * S, 0, 0) }

RayDirections ==
  { Vec(S, 0, 0), Vec(0 - S, 0, 0), Vec(2 * S, 0, 0), Vec(0, S, 0),
    Vec(S, S, 0) }

RayDistances == { Fin(3 * S), Fin(4 * S), Fin(7 * S), Inf(1) }

InitRay ==
  /\ bodies = RayBodies
  /\ defs = RayColliders
  /\ rigidbodies = << 1 >>
  /\ colliders = << 1 >>
  /\ collisions = << >>
  /\ WorldConfigInit
  /\ obs = ObsInit
  /\ result = NoResult

NextRay ==
  \/ \E origin \in RayOrigins, direction \in RayDirections,
        maxDistance \in RayDistances :
        RaycastCall(origin, direction, maxDistance)
  \/ \E c \in { 2, 3 } : AddCollider(c)
  \/ RemoveCollider(1)

SpecRay == InitRay /\ [][NextRay]_vars

\* ------------------------------------------------------------------------
\* SpecContact: two bodies in or near contact, with written velocities and
\* materials, beside two static boxes that overlap each other, and the
\* phases of fixedUpdate run on them one at a time
\* ------------------------------------------------------------------------

\* A body whose public velocity, restitution and friction fields were written.
BodyWith(b, velocity, restitution, friction) ==
  [b EXCEPT !.velocity = velocity, !.restitution = restitution,
            !.friction = friction]

\* resolveCollision(collision) on the k-th entry of the collision list
ResolveCollisionCall(k) ==
  /\ obs.calls < MaxCalls
  /\ k \in 1..Len(collisions)
  /\ \E r \in { ResolveCollision(bodies, collisions[k]) } :
        /\ bodies' = r.bs
        /\ result' = [call |-> "resolveCollision", before |-> bodies,
                      collision |-> collisions[k], resolved |-> r.resolved]
  /\ Called("resolveCollision", k)
  /\ UNCHANGED << defs, rigidbodies, colliders, collisions, worldConfig,
                  accumulator >>

\* detectCollisions() and resolveCollisions(), as fixedUpdate ends
DetectAndResolveCall ==
  /\ obs.calls < MaxCalls
  /\ \E r \in { DetectAndResolve(bodies, defs, colliders,
                                  collisionIterations) } :
        /\ bodies' = r.bs
        /\ collisions' = r.collisions
        /\ result' = [call |-> "resolveCollisions", before |-> bodies,
                      list |-> collisions, passes |-> r.passes,
                      detections |-> r.detections]
  /\ Called("resolveCollisions", 0)
  /\ UNCHANGED << defs, rigidbodies, colliders, worldConfig, accumulator >>

\* What the two bodies are built from: the mass, place and velocity of the
\* second body, the materials, the modes and the shapes.
ContactMasses == { S, 3 * S }

\* The second body overlaps the first by 0.1 along x or stands on its
\* diagonal; or it overlaps it along x by the minimum penetration exactly or
\* by a little more, or leaves a gap inside or outside the broad-phase margin.
ContactPlaces ==
  { Vec((9 * S) \div 10, 0, 0), Vec((6 * S) \div 10, (6 * S) \div 10, 0),
    Vec(S - MinPenetration, 0, 0), Vec(S - MinPenetration - 1, 0, 0),
    Vec(S + BroadPhaseMargin, 0, 0), Vec(S + 3 * BroadPhaseMargin, 0, 0) }

ContactVelocities == { Zero, Vec(0 - S, 0, 0), Vec(S, S \div 2, 0) }

ContactMaterials ==
  { [restitution |-> 0, friction |-> 0],
    [restitution |-> DefaultRestitution, friction |-> DefaultFriction] }

ContactModes ==
  { << "dynamic", "dynamic" >>, << "kinematic", "dynamic" >>,
    << "kinematic", "kinematic" >>, << "dynamic", "static" >> }

ContactShapes == { "box", "sphere" }

\* The body in its mode.
BodyIn(b, mode) ==
  IF mode = "static" THEN BodyMakeStatic(b)
  ELSE IF mode = "kinematic" THEN BodyMakeKinematic(b)
  ELSE b

ContactCollider(shape, b) ==
  IF shape = "box" THEN BoxCollider(b, Vec(S, S, S))
  ELSE SphereCollider(b, S \div 2)

InitContact ==
  /\ \E mass \in ContactMasses, place \in ContactPlaces,
        velocity \in ContactVelocities, material \in ContactMaterials,
        modes \in ContactModes, shape \in ContactShapes :
        /\ bodies =
             << BodyWith(BodyIn(NewRigidBody(S, Zero), modes[1]), Zero,
                         material.restitution, material.friction),
                BodyIn(BodyWith(NewRigidBody(mass, place), velocity,
                                material.restitution, material.friction),
                       modes[2]),
                BodyMakeStatic(NewRigidBody(0, Vec(0, 5 * S, 0))),
                BodyMakeStatic(NewRigidBody(0, Vec(0, 5 * S, S \div 2))) >>
        /\ defs = << ContactCollider(shape, 1), ContactCollider(shape, 2),
                     ContactCollider("box", 3), ContactCollider("box", 4) >>
  /\ rigidbodies = << 1, 2, 3, 4 >>
  /\ colliders = << 1, 2, 3, 4 >>
  /\ collisions = << >>
  /\ WorldConfigInit
  /\ obs = ObsInit
  /\ result = NoResult

NextContact ==
  \/ DetectCollisionsCall
  \/ \E k \in { 1 } : ResolveCollisionCall(k)
  \/ DetectAndResolveCall
  \/ \E enable \in BOOLEAN : ConfigureDenseScene(enable)

SpecContact == InitContact /\ [][NextContact]_vars

\* ------------------------------------------------------------------------
\* SpecRest: a dynamic box placed at rest on a static ground box, both with
\* restitution 0, and stepped again and again under the default gravity
\* (positive y points down: the ground's top face is at y = -1/2)
\* ------------------------------------------------------------------------

\* The number of step() calls followed.
MaxRestSteps == 12

RestMasses == { S \div 2, S, 2 * S, 3 * S }

RestSizes == { S, 2 * S }

\* step() is called with one or two timesteps of elapsed time.
RestDeltaTimes == { DefaultTimeStep, 2 * DefaultTimeStep }

RestGround ==
  BodyWith(BodyMakeStatic(NewRigidBody(0, Zero)), Zero, 0, DefaultFriction)

\* The box with its bottom face on the ground's top face.
RestBox(mass, size) ==
  BodyWith(NewRigidBody(mass, Vec(0, 0 - (S + size) \div 2, 0)), Zero, 0,
           DefaultFriction)

InitRest ==
  /\ \E mass \in RestMasses, size \in RestSizes :
        /\ bodies = << RestGround, RestBox(mass, size) >>
        /\ defs = << BoxCollider(1, Vec(10 * S, S, 10 * S)),
                     BoxCollider(2, Vec(size, size, size)) >>
  /\ \E order \in { << 1, 2 >>, << 2, 1 >> } :
        /\ rigidbodies = order
        /\ colliders = order
  /\ collisions = << >>
  /\ WorldConfigInit
  /\ obs = ObsInit
  /\ result = NoResult

NextRest == \E deltaTime \in RestDeltaTimes : StepWithin(deltaTime, MaxRestSteps)

SpecRest == InitRest /\ [][NextRest]_vars

\* ------------------------------------------------------------------------
\* SpecFrame: the collision list between calls.  Body 1 carries a box and a
\* second collider of its own; body 2 carries a box in or out of reach of
\* body 1.  The world is stepped by a whole timestep or by no time at all,
\* and between the steps body 1's second collider is put in or taken out,
\* and body 2 or its collider is taken out.
\* ------------------------------------------------------------------------

FramePlaces == { Vec((9 * S) \div 10, 0, 0), Vec(3 * S, 0, 0) }

\* The second collider of body 1: a smaller box or a sphere.
FrameSeconds ==
  { BoxCollider(1, Vec(S \div 2, S \div 2, S \div 2)),
    SphereCollider(1, S \div 4) }

FrameRegistries == { << 1, 2, 3 >>, << 1, 3 >> }

FrameDeltaTimes == { 0, DefaultTimeStep }

InitFrame ==
  /\ \E place \in FramePlaces :
        bodies = << NewRigidBody(S, Zero), NewRigidBody(S, place) >>
  /\ \E second \in FrameSeconds :
        defs = << BoxCollider(1, Vec(S, S, S)), second,
                  BoxCollider(2, Vec(S, S, S)) >>
  /\ rigidbodies = << 1, 2 >>
  /\ colliders \in FrameRegistries
  /\ collisions = << >>
  /\ WorldConfigInit
  /\ obs = ObsInit
  /\ result = NoResult

NextFrame ==
  \/ \E deltaTime \in FrameDeltaTimes : Step(deltaTime)
  \/ \E c \in { 2 } : AddCollider(c)
  \/ \E c \in { 2, 3 } : RemoveCollider(c)
  \/ \E b \in { 2 } : RemoveRigidBody(b)

SpecFrame == InitFrame /\ [][NextFrame]_vars

\* ------------------------------------------------------------------------
\* Properties
\* ------------------------------------------------------------------------

\* A step() call has just returned.
Stepped == obs'.stepCalls = obs.stepCalls + 1

\* C1: step() leaves the position and the velocity of every static body as
\* they were, whatever forces are pending on it, whatever the gravity, and
\* whatever collisions it takes part in.
C1_StaticInvariance ==
  [][Stepped =>
       \A b \in DOMAIN bodies :
         bodies[b].isStatic =>
           /\ bodies'[b].position = bodies[b].position
           /\ bodies'[b].velocity = bodies[b].velocity]_vars

\* C1 witness: the last step ran a sub-update in which the static ground
\* was in contact with a body that the impulse sent back up, while body 3,
\* made static with a force pending and before any step moved it, sat in the
\* ground.
C1_Witness ==
  /\ obs.lastSub >= 1
  /\ \E k \in 1..Len(collisions) :
       /\ bodies[collisions[k].bodyA].isStatic
       /\ ~bodies[collisions[k].bodyB].isStatic
       /\ bodies[collisions[k].bodyB].velocity.y < 0
  /\ bodies[3].isStatic
  /\ bodies[3].forces # << >>
  /\ bodies[3].position = SceneBodies[3].position

\* C5: in every state reached through the constructor, setMass, makeStatic,
\* makeKinematic and makeDynamic, with any mass, a body's inverseMass is 0
\* if and only if the body is static.
C5_InverseMassIffStatic ==
  \A b \in DOMAIN bodies : (bodies[b].inverseMass = 0) <=> bodies[b].isStatic

\* C6: every static body is at rest: its velocity and its angular velocity
\* are zero, since every operation that makes a body static (makeStatic,
\* setMass(0), makeDynamic(0)) leaves them zero.
C6_StaticAtRest ==
  \A b \in DOMAIN bodies :
    bodies[b].isStatic =>
      /\ bodies[b].velocity = Zero
      /\ bodies[b].angularVelocity = Zero

\* C3: as long as the timestep has not been changed, no simulated time is
\* dropped: the sum of the dt passed to step() equals the number of
\* sub-updates run times the timestep, plus the accumulator, also after calls
\* that the max-substeps cap stopped early.
C3_TimeConserved ==
  ~obs.timeStepChanged =>
     obs.totalDt = obs.subUpdates * timeStep + accumulator

\* C3 witness: an earlier call was stopped by the cap and the last call,
\* step(0), ran a sub-update on the time that call had left.
C3_Witness ==
  /\ ~obs.timeStepChanged
  /\ obs.stepCalls >= 2
  /\ obs.subUpdates > maxSubSteps
  /\ obs.lastDt = 0
  /\ obs.lastSub >= 1

\* C4 as stated: a step(dt) call runs exactly
\* min(maxSubSteps, floor((accumulator before + dt) / timestep)) sub-updates,
\* never more than maxSubSteps, and on return the accumulator is below one
\* timestep or exactly maxSubSteps sub-updates were run.
C4_SubStepCount ==
  [][Stepped =>
       /\ obs'.lastSub =
            Min2(maxSubSteps, (accumulator + obs'.lastDt) \div timeStep)
       /\ obs'.lastSub <= maxSubSteps
       /\ accumulator' < timeStep \/ obs'.lastSub = maxSubSteps]_vars

\* C4 amended: a step(dt) call runs exactly
\* max(0, min(maxSubSteps, floor((accumulator before + dt) / timestep)))
\* sub-updates, never more than maxSubSteps, and on return the accumulator is
\* below one timestep or exactly maxSubSteps sub-updates were run.
C4_SubStepCountAmended ==
  [][Stepped =>
       /\ obs'.lastSub =
            Max2(0, Min2(maxSubSteps,
                         (accumulator + obs'.lastDt) \div timeStep))
       /\ obs'.lastSub <= maxSubSteps
       /\ accumulator' < timeStep \/ obs'.lastSub = maxSubSteps]_vars

\* C4 witness: the last call held more than maxSubSteps timesteps, ran
\* maxSubSteps sub-updates and returned with a timestep or more left.
C4_Witness ==
  /\ obs.stepCalls >= 1
  /\ obs.lastSub = maxSubSteps
  /\ obs.lastAcc + obs.lastDt >= (maxSubSteps + 1) * timeStep
  /\ accumulator >= timeStep

\* A body that integrates under forces: neither static nor kinematic.
IsDynamic(b) == ~b.isStatic /\ ~b.isKinematic

\* C8: integration is semi-implicit Euler.  Over a step() call of one
\* sub-update a dynamic body's velocity grows by acceleration * dt and its
\* position by the NEW velocity * dt; a body of mass 1 at rest, with gravity
\* (0,10,0) and nothing else pushing it, ends with velocity.y = 10 * dt and
\* position.y raised by 10 * dt * dt.
C8_SemiImplicitEuler ==
  [][Stepped /\ obs'.lastSub = 1 =>
       \A b \in DOMAIN bodies :
         IsDynamic(bodies[b]) =>
           /\ bodies'[b].velocity.x =
                bodies[b].velocity.x
                  + Mul(bodies'[b].acceleration.x, timeStep)
           /\ bodies'[b].velocity.y =
                bodies[b].velocity.y
                  + Mul(bodies'[b].acceleration.y, timeStep)
           /\ bodies'[b].position.x =
                bodies[b].position.x + Mul(bodies'[b].velocity.x, timeStep)
           /\ bodies'[b].position.y =
                bodies[b].position.y + Mul(bodies'[b].velocity.y, timeStep)
           /\ ( /\ bodies[b].mass = S
                /\ bodies[b].velocity = Zero
                /\ bodies[b].forces = << >>
                /\ bodies[b].useGravity
                /\ gravity = TimeGravity )
              => /\ bodies'[b].velocity.y = 10 * timeStep
                 /\ bodies'[b].position.y - bodies[b].position.y =
                      Mul(10 * timeStep, timeStep)]_vars

\* C8 witness: the body of mass 1, at rest at the origin, after the one
\* sub-update of the first step() under gravity (0,10,0).
C8_Witness ==
  /\ obs.stepCalls = 1
  /\ obs.lastSub = 1
  /\ gravity = TimeGravity
  /\ bodies[1].mass = S
  /\ bodies[1].velocity = Vec(0, 10 * timeStep, 0)
  /\ bodies[1].position = Vec(0, Mul(10 * timeStep, timeStep), 0)

\* C2: addCollider of a collider that is not registered, on a world that
\* holds as many colliders as its limit (or more), returns having changed
\* neither registry: the collider count stays where it was and the rejected
\* collider's body is not registered by the call; only the warning is issued.
C2_ColliderCap ==
  [][\A c \in DOMAIN defs :
       ( /\ AddCollider(c)
         /\ ~Includes(colliders, c)
         /\ Len(colliders) >= maxObjectsPerFrame )
       => /\ colliders' = colliders
          /\ Len(colliders') = Len(colliders)
          /\ rigidbodies' = rigidbodies
          /\ ( ~Includes(rigidbodies, defs[c].rigidbody)
                 => ~Includes(rigidbodies', defs[c].rigidbody) )
          /\ obs'.warnings = obs.warnings + 1]_vars

\* C2 witness: a collider was rejected, the world holds exactly as many
\* colliders as its limit, and a collider left out has its body left out too.
C2_Witness ==
  /\ obs.warnings >= 1
  /\ Len(colliders) = maxObjectsPerFrame
  /\ \E c \in DOMAIN defs :
       /\ ~Includes(colliders, c)
       /\ ~Includes(rigidbodies, defs[c].rigidbody)

\* C7: on a box and a sphere, box.checkCollision(sphere) and
\* sphere.checkCollision(box) both return no collision, or both return one,
\* with the same penetration depth, the two bodies exchanged (bodyA the
\* receiver's body) and contact normals that are negations of each other.
C7_BoxSphereSymmetry ==
  result.call = "checkCollision"
    /\ defs[result.receiver].kind # defs[result.other].kind =>
    \/ ~result.collision.hit /\ ~result.reverse.hit
    \/ /\ result.collision.hit /\ result.reverse.hit
       /\ result.collision.penetrationDepth = result.reverse.penetrationDepth
       /\ result.collision.bodyA = defs[result.receiver].rigidbody
       /\ result.collision.bodyB = defs[result.other].rigidbody
       /\ result.reverse.bodyA = defs[result.other].rigidbody
       /\ result.reverse.bodyB = defs[result.receiver].rigidbody
       /\ result.collision.contactNormal.x
            = 0 - result.reverse.contactNormal.x
       /\ result.collision.contactNormal.y
            = 0 - result.reverse.contactNormal.y
       /\ result.collision.contactNormal.z
            = 0 - result.reverse.contactNormal.z

\* C7 witness: the sphere was the receiver, it overlaps the box from
\* outside, and the two calls returned collisions with a non-zero normal.
C7_Witness ==
  /\ result.call = "checkCollision"
  /\ defs[result.receiver].kind = "sphere"
  /\ defs[result.other].kind = "box"
  /\ result.collision.hit
  /\ result.reverse.hit
  /\ result.collision.penetrationDepth > 0
  /\ result.collision.contactNormal # Zero

\* The AABB the last raycast saw for the collider c.
RayAABB(c) == GetAABB(defs[c], bodies)

\* The closed slabs of the AABB on the axes where the direction is zero
\* contain the origin.
InZeroSlabs(origin, direction, aabb) ==
  /\ direction.x = 0 => aabb.min.x <= origin.x /\ origin.x <= aabb.max.x
  /\ direction.y = 0 => aabb.min.y <= origin.y /\ origin.y <= aabb.max.y
  /\ direction.z = 0 => aabb.min.z <= origin.z /\ origin.z <= aabb.max.z

\* The AABB is not behind the origin on the axes where the ray moves.
LiesAhead(origin, direction, aabb) ==
  /\ direction.x > 0 => aabb.max.x >= origin.x
  /\ direction.x < 0 => aabb.min.x <= origin.x
  /\ direction.y > 0 => aabb.max.y >= origin.y
  /\ direction.y < 0 => aabb.min.y <= origin.y
  /\ direction.z > 0 => aabb.max.z >= origin.z
  /\ direction.z < 0 => aabb.min.z <= origin.z

\* How many components of a direction are zero.
ZeroComponents(direction) ==
  (IF direction.x = 0 THEN 1 ELSE 0) + (IF direction.y = 0 THEN 1 ELSE 0)
    + (IF direction.z = 0 THEN 1 ELSE 0)

\* C9: a raycast without a distance limit into a world of one collider.
\* From (0,0,0) along (1,0,0), the box at (5,0,0) of half-extent 1 is
\* returned, entered at distance 4; along (0,1,0) nothing is returned.  A ray
\* along one axis returns the collider's body exactly when the AABB's slabs
\* on the two other axes contain the origin and the AABB lies ahead; a ray
\* with one zero component returns it only if the slab on that axis contains
\* the origin.
C9_AxisAlignedRaycast ==
  ( /\ result.call = "raycast"
    /\ result.maxDistance = Inf(1)
    /\ Len(result.colliders) = 1 )
  => /\ ( /\ result.colliders = << 1 >>
          /\ result.origin = Zero
          /\ result.direction = Vec(S, 0, 0) )
        => result.body = 1 /\ result.closestDistance = Fin(4 * S)
     /\ ( /\ result.colliders = << 1 >>
          /\ result.origin = Zero
          /\ result.direction = Vec(0, S, 0) )
        => result.body = 0
     /\ ZeroComponents(result.direction) = 2
        => ( result.body = defs[result.colliders[1]].rigidbody
             <=> /\ InZeroSlabs(result.origin, result.direction,
                                RayAABB(result.colliders[1]))
                 /\ LiesAhead(result.origin, result.direction,
                              RayAABB(result.colliders[1])) )
     /\ ( ZeroComponents(result.direction) = 1 /\ result.body # 0 )
        => InZeroSlabs(result.origin, result.direction,
                       RayAABB(result.colliders[1]))

\* The distance raycastAABB gave the last raycast for the collider c.
RayDistance(c) ==
  RaycastAABB(result.origin, VNormalize(result.direction), RayAABB(c))

\* The collider c was hit at a distance in the closed [0, maxDistance].
RayWithin(c) ==
  /\ RayDistance(c).k \in { "fin", "inf" }
  /\ ~ExtLt(RayDistance(c), Fin(0))
  /\ ~ExtLt(result.maxDistance, RayDistance(c))

\* C10: raycast returns the body of a collider hit at the smallest distance
\* among the colliders hit within the closed interval [0, maxDistance], and
\* returns none exactly when no collider is hit within it.
C10_ClosestWithinMax ==
  result.call = "raycast" =>
    /\ result.body = 0
         <=> \A k \in 1..Len(result.colliders) :
                ~RayWithin(result.colliders[k])
    /\ result.body # 0
         => \E k \in 1..Len(result.colliders) :
              /\ RayWithin(result.colliders[k])
              /\ defs[result.colliders[k]].rigidbody = result.body
              /\ \A j \in 1..Len(result.colliders) :
                   RayWithin(result.colliders[j])
                     => ~ExtLt(RayDistance(result.colliders[j]),
                               RayDistance(result.colliders[k]))

\* The speed of a body along a contact normal.
NormalSpeed(b, collision) == VDot(b.velocity, collision.contactNormal)

\* Twice the kinetic energy of the two bodies of a contact along its normal:
\* mA (vA.n)^2 + mB (vB.n)^2.
NormalEnergy(bs, collision) ==
  Mul(bs[collision.bodyA].mass,
      Mul(NormalSpeed(bs[collision.bodyA], collision),
          NormalSpeed(bs[collision.bodyA], collision)))
  + Mul(bs[collision.bodyB].mass,
        Mul(NormalSpeed(bs[collision.bodyB], collision),
            NormalSpeed(bs[collision.bodyB], collision)))

\* Both bodies of the resolved contact are dynamic, of positive mass, with
\* restitution 0 and friction 0.
InelasticContact ==
  /\ obs.lastCall = "resolveCollision"
  /\ \A b \in { result.collision.bodyA, result.collision.bodyB } :
        /\ IsDynamic(result.before[b])
        /\ result.before[b].inverseMass > 0
        /\ result.before[b].restitution = 0
        /\ result.before[b].friction = 0

\* What the rounding of a normalised contact normal can leave of a speed:
\* a thousandth, on speeds of about 1.
SpeedTolerance == S \div 1000

\* C11: resolving the collision of two dynamic bodies that have restitution
\* 0 and friction 0 never increases the kinetic energy along the contact
\* normal, and an applied impulse leaves no relative velocity along it (up
\* to the rounding of the normal).
C11_InelasticEnergyCap ==
  InelasticContact =>
    /\ NormalEnergy(bodies, result.collision)
         <= NormalEnergy(result.before, result.collision)
    /\ result.resolved =>
         Abs(NormalSpeed(bodies[result.collision.bodyB], result.collision)
             - NormalSpeed(bodies[result.collision.bodyA], result.collision))
          <= SpeedTolerance

\* The two bodies approached each other and the impulse took energy away.
C11_Witness ==
  /\ InelasticContact
  /\ result.resolved
  /\ NormalEnergy(bodies, result.collision)
       < NormalEnergy(result.before, result.collision)
  /\ NormalEnergy(bodies, result.collision) > 0

\* How far the box of SpecRest has sunk into the ground: its bottom face
\* against the ground's top face along y.
RestPenetration ==
  (bodies[2].position.y + defs[2].size.y \div 2)
  - (bodies[1].position.y - defs[1].size.y \div 2)

\* The box lies in the ground no deeper than the slop and does not move along
\* the contact normal (the y axis; the ground never moves).
Rested ==
  /\ RestPenetration >= 0
  /\ RestPenetration <= Slop
  /\ ~bodies[2].velocity.nan
  /\ bodies[2].velocity.y = 0
  /\ bodies[1].velocity = Zero

C13_KinematicUnforced ==
  [][\A b \in DOMAIN bodies :
       (Stepped /\ obs'.lastSub = 1
        /\ bodies[b].isKinematic /\ ~bodies[b].isStatic)
       => /\ bodies'[b].velocity = bodies[b].velocity
          /\ bodies'[b].angularVelocity = bodies[b].angularVelocity
          /\ bodies'[b].position
               = VAdd(bodies[b].position,
                      VMul(bodies[b].velocity, timeStep))]_vars

\* No id stands twice in the registry.
NoDuplicates(seq) ==
  \A i, j \in 1..Len(seq) : seq[i] = seq[j] => i = j

\* The ids that are in both registries stand in the same order in both.
SameOrder(before, after) ==
  \A i, j \in 1..Len(before) :
    (i < j /\ Includes(after, before[i]) /\ Includes(after, before[j]))
    => IndexOf(after, before[i]) < IndexOf(after, before[j])

\* The call op has just returned; it was made with the id obs'.lastArg.
Returned(op) == obs'.calls = obs.calls + 1 /\ obs'.lastCall = op

RegistriesUnchanged == UNCHANGED << rigidbodies, colliders >>

\* C14: through addRigidBody, removeRigidBody, addCollider, removeCollider
\* and clear no registry ever holds an object twice, the entries that
\* survive a call keep their relative order, adding a registered object
\* changes nothing, and removing an unregistered object changes nothing.
C14_UniqueOrderedRegistries ==
  /\ [](NoDuplicates(rigidbodies) /\ NoDuplicates(colliders))
  /\ [][/\ SameOrder(rigidbodies, rigidbodies')
        /\ SameOrder(colliders, colliders')
        /\ (Returned("addRigidBody") /\ Includes(rigidbodies, obs'.lastArg))
             => RegistriesUnchanged
        /\ (Returned("addCollider") /\ Includes(colliders, obs'.lastArg))
             => RegistriesUnchanged
        /\ (Returned("removeRigidBody")
             /\ ~Includes(rigidbodies, obs'.lastArg))
             => RegistriesUnchanged
        /\ (Returned("removeCollider")
             /\ ~Includes(colliders, obs'.lastArg))
             => RegistriesUnchanged]_vars

\* Collider 8 was removed and added again: it stands last, once, and the
\* colliders that stayed stand in the order they had.
C14_Witness ==
  /\ obs.lastCall = "addCollider"
  /\ obs.lastArg = 8
  /\ colliders = << 1, 2, 3, 4, 5, 6, 7, 9, 8 >>
  /\ rigidbodies = << 1, 2, 3, 4, 5, 6, 7, 8, 9 >>

\* C15: after makeDynamic(mass), for every mass, 0 and negative values
\* included, and whatever the body's mode was, isStatic and isKinematic are
\* both false, and inverseMass is 1/mass when mass > 0 and 0 otherwise.
C15_MakeDynamic ==
  obs.lastCall = "makeDynamic" =>
    /\ ~bodies[obs.lastArg].isStatic
    /\ ~bodies[obs.lastArg].isKinematic
    /\ bodies[obs.lastArg].inverseMass
         = IF bodies[obs.lastArg].mass > 0
           THEN Div(S, bodies[obs.lastArg].mass) ELSE 0

\* The tuned triple (iterations, timestep, maxSubSteps).
Profile == << collisionIterations, timeStep, maxSubSteps >>

DenseProfile == << 12, S \div 120, 8 >>

DefaultProfile == << 8, S \div 60, 5 >>

\* C16: configureDenseScene(true) sets (iterations, timestep, maxSubSteps) to
\* (12, 1/120, 8) and configureDenseScene(false) sets it to (8, 1/60, 5),
\* which the constructor sets too; the triple is always one of the two, a
\* repeated call changes nothing more, and the call leaves the accumulator,
\* the collider cap, gravity, the registries and the collision list alone.
C16_DenseSceneProfiles ==
  /\ [](Profile \in { DenseProfile, DefaultProfile })
  /\ [](obs.lastCall = "none" => Profile = DefaultProfile)
  /\ [][Returned("configureDenseScene") =>
          /\ obs'.lastArg = 1 => Profile' = DenseProfile
          /\ obs'.lastArg = 0 => Profile' = DefaultProfile
          /\ UNCHANGED << accumulator, maxObjectsPerFrame, gravity,
                          rigidbodies, colliders, collisions, bodies >>]_vars

\* configureDenseScene(true) was called on a world whose accumulator holds
\* half a default timestep and whose gravity was set.
C16_Witness ==
  /\ obs.lastCall = "configureDenseScene"
  /\ obs.lastArg = 1
  /\ Profile = DenseProfile
  /\ accumulator = DenseTimeStep
  /\ gravity = TimeGravity

\* What one sub-update of gravity adds to a velocity and to a position.
GravitySpeed == Mul(DefaultGravity.y, DefaultTimeStep)

GravitySink == Mul(GravitySpeed, DefaultTimeStep)

\* C17: a sub-update applies gravity, then integrates every body, then
\* detects, then resolves.  Seen from outside on the box of SpecRest: after a
\* step the gravity force has been consumed by the integration (no force is
\* left pending and the acceleration is gravity), and after a first step of
\* one sub-update the box has moved by one integration under gravity and no
\* more, the contact in the list has the depth the box has after that
\* integration, and the velocity that the integration gave has been taken
\* away by the resolution of that contact.
C17_PhaseOrder ==
  /\ obs.stepCalls >= 1 =>
       /\ bodies[2].forces = << >>
       /\ bodies[2].acceleration = DefaultGravity
  /\ (obs.stepCalls = 1 /\ obs.subUpdates = 1) =>
       /\ RestPenetration = GravitySink
       /\ Len(collisions) = 1
       /\ collisions[1].penetrationDepth = GravitySink
       /\ bodies[2].velocity = Zero

\* The first step of one sub-update has been made and left one contact.
C17_Witness ==
  /\ obs.stepCalls = 1
  /\ obs.subUpdates = 1
  /\ collisions # << >>
  /\ GravitySink > MinPenetration
  /\ RestPenetration > 0
  /\ bodies[2].acceleration.y > 0

\* The pairs of registry positions that detectCollisions keeps: the bodies
\* are not both static, the AABBs grown by 0.01 on every side intersect, and
\* the narrow phase of the earlier collider against the later one gives a
\* contact deeper than 0.001.
Detectable(i, j) ==
  /\ i < j
  /\ ~(bodies[defs[colliders[i]].rigidbody].isStatic
       /\ bodies[defs[colliders[j]].rigidbody].isStatic)
  /\ Intersects(Expand(GetAABB(defs[colliders[i]], bodies), S \div 100),
                Expand(GetAABB(defs[colliders[j]], bodies), S \div 100))
  /\ CheckCollision(defs[colliders[i]], defs[colliders[j]], bodies).hit
  /\ CheckCollision(defs[colliders[i]], defs[colliders[j]],
                    bodies).penetrationDepth > S \div 1000

DetectablePairs ==
  { p \in (1..Len(colliders)) \X (1..Len(colliders)) : Detectable(p[1], p[2]) }

\* C18: after a detection pass the collision list holds the narrow-phase
\* result of every pair of registered colliders (the earlier registered one
\* as the receiver) whose bodies are not both static, whose AABBs grown by
\* 0.01 intersect and whose penetration is above 0.001, each once and
\* nothing else, whatever the list held before.
C18_DetectionList ==
  obs.lastCall = "detectCollisions" =>
    /\ Len(collisions) = Cardinality(DetectablePairs)
    /\ \A p \in DetectablePairs :
         \E k \in 1..Len(collisions) :
           collisions[k] = CheckCollision(defs[colliders[p[1]]],
                                          defs[colliders[p[2]]], bodies)
    /\ \A k \in 1..Len(collisions) :
         \E p \in DetectablePairs :
           collisions[k] = CheckCollision(defs[colliders[p[1]]],
                                          defs[colliders[p[2]]], bodies)

\* A second detection pass found the one contact that the list held already.
C18_Witness ==
  /\ obs.lastCall = "detectCollisions"
  /\ result.call = "detectCollisions"
  /\ result.list # << >>
  /\ Len(collisions) = 1
  /\ collisions[1].bodyA = 1
  /\ collisions[1].bodyB = 2

\* The velocity of B relative to A along the normal of a contact.
RelativeNormalSpeed(bs, collision) ==
  VDot(VSub(bs[collision.bodyB].velocity, bs[collision.bodyA].velocity),
       collision.contactNormal)

\* resolveCollision has just returned from a contact that it took up: the
\* bodies are not both static, the contact is deeper than the minimum, and
\* the velocities are numbers.
ContactTakenUp ==
  /\ obs.lastCall = "resolveCollision"
  /\ ~(result.before[result.collision.bodyA].isStatic
       /\ result.before[result.collision.bodyB].isStatic)
  /\ result.collision.penetrationDepth > MinPenetration
  /\ ~result.before[result.collision.bodyA].velocity.nan
  /\ ~result.before[result.collision.bodyB].velocity.nan

\* No impulse and no friction: false is returned, the velocities are what
\* they were, and the positions are those that separateObjects gives.
OnlySeparated ==
  /\ ~result.resolved
  /\ \A b \in DOMAIN bodies : bodies[b].velocity = result.before[b].velocity
  /\ bodies = SeparateObjects(result.before, result.collision.bodyA,
                              result.collision.bodyB,
                              result.collision.contactNormal,
                              result.collision.penetrationDepth)

\* C20: when the velocity of B relative to A along the contact normal is zero
\* or positive, resolving the collision applies no impulse and no friction,
\* leaves both velocities unchanged and reports that no impulse was applied;
\* the positional correction is made all the same.
C20_NoImpulseUnlessApproaching ==
  (ContactTakenUp
   /\ RelativeNormalSpeed(result.before, result.collision) >= 0)
  => OnlySeparated

\* C20 as the code has it: the test is velocityAlongNormal > 0, so only a
\* positive relative velocity along the normal skips the impulse and the
\* friction; at zero the resolution goes on and true is returned.
C20_NoImpulseWhenSeparating ==
  /\ (ContactTakenUp
      /\ RelativeNormalSpeed(result.before, result.collision) > 0)
     => OnlySeparated
  /\ (ContactTakenUp
      /\ RelativeNormalSpeed(result.before, result.collision) = 0)
     => result.resolved

\* Two separating bodies that overlapped by more than the slop were moved
\* apart and kept their velocities.
C20_Witness ==
  /\ ContactTakenUp
  /\ RelativeNormalSpeed(result.before, result.collision) > 0
  /\ result.collision.penetrationDepth > Slop
  /\ bodies[2].position # result.before[2].position
  /\ bodies[2].velocity = result.before[2].velocity
  /\ ~result.resolved

\* resolveCollision would go through its impulse computation on the contact:
\* the bodies are not both static, the contact is deeper than the minimum,
\* and the relative velocity along the normal is not positive (a NaN is not).
TakesImpulse(bs, collision) ==
  /\ ~(bs[collision.bodyA].isStatic /\ bs[collision.bodyB].isStatic)
  /\ collision.penetrationDepth > MinPenetration
  /\ \/ bs[collision.bodyA].velocity.nan
     \/ bs[collision.bodyB].velocity.nan
     \/ RelativeNormalSpeed(bs, collision) <= 0

\* Some contact of the list takes an impulse from the bodies as they are.
PassApplies(bs, list) ==
  \E k \in 1..Len(list) : TakesImpulse(bs, list[k])

\* C19: the resolution of one sub-update makes at least one and at most
\* `iterations` passes (8, or 12 in the dense profile); it makes one pass
\* only exactly when the first pass applies no impulse, and whenever it ends
\* before the last allowed pass, the pass it ended on applied none; with the
\* first detection there are as many detection passes as resolution passes,
\* so never more than `iterations`.
C19_BoundedResolution ==
  obs.lastCall = "resolveCollisions" =>
    /\ collisionIterations \in { 8, 12 }
    /\ result.passes >= 1
    /\ result.passes <= collisionIterations
    /\ result.detections = result.passes
    /\ result.passes = 1
         <=> ~PassApplies(result.before,
                          DetectCollisions(result.before, defs, colliders))
    /\ result.passes < collisionIterations => ~PassApplies(bodies, collisions)

\* In the dense profile a contact that never stops taking impulses was
\* resolved twelve times.
C19_Witness ==
  /\ obs.lastCall = "resolveCollisions"
  /\ collisionIterations = 12
  /\ result.passes = 12
  /\ result.detections = 12
  /\ collisions # << >>

\* The last call was a.checkCollision(b) on colliders of these two kinds.
Checked(kindA, kindB) ==
  /\ obs.lastCall = "checkCollision"
  /\ defs[result.receiver].kind = kindA
  /\ defs[result.other].kind = kindB

\* The position of the body of the collider c.
PositionOf(c) == bodies[defs[c].rigidbody].position

\* The overlaps of the world AABBs of the colliders a and b on the three
\* axes.
Overlaps(a, b) ==
  LET aabb1 == GetAABB(defs[a], bodies)
      aabb2 == GetAABB(defs[b], bodies)
  IN << Min2(aabb1.max.x, aabb2.max.x) - Max2(aabb1.min.x, aabb2.min.x),
        Min2(aabb1.max.y, aabb2.max.y) - Max2(aabb1.min.y, aabb2.min.y),
        Min2(aabb1.max.z, aabb2.max.z) - Max2(aabb1.min.z, aabb2.min.z) >>

\* The unit axis of the least of three overlaps, x before y before z.
LeastAxis(o) ==
  IF o[1] <= o[2] /\ o[1] <= o[3] THEN Vec(S, 0, 0)
  ELSE IF o[2] <= o[3] THEN Vec(0, S, 0)
  ELSE Vec(0, 0, S)

\* The collision is the one C21 describes for overlaps o of boxes at pa, pb.
BoxBoxAsStated(collision, o, pa, pb) ==
  /\ collision.penetrationDepth = Min2(o[1], Min2(o[2], o[3]))
  /\ collision.penetrationDepth > 0
  /\ collision.contactNormal
       = IF VDot(LeastAxis(o), VSub(pb, pa)) < 0 THEN VMul(LeastAxis(o), 0 - S)
         ELSE LeastAxis(o)
  /\ 2 * collision.contactPoint.x = pa.x + pb.x
  /\ 2 * collision.contactPoint.y = pa.y + pb.y
  /\ 2 * collision.contactPoint.z = pa.z + pb.z

\* C21: box.checkCollision(box) returns no collision when the overlap of the
\* two world AABBs is zero or negative on some axis, touching boxes
\* included; a collision it returns has the least overlap, which is
\* positive, as its penetration, the unit axis of that overlap (x before y
\* before z) turned from A towards B as its normal, and the midpoint of the
\* two positions as its contact point.
C21_BoxBoxNarrowPhase ==
  Checked("box", "box") =>
    LET o == Overlaps(result.receiver, result.other)
    IN /\ (o[1] <= 0 \/ o[2] <= 0 \/ o[3] <= 0) => ~result.collision.hit
       /\ result.collision.hit =>
            BoxBoxAsStated(result.collision, o, PositionOf(result.receiver),
                           PositionOf(result.other))

\* The closest point of the box collider's AABB to the sphere collider's
\* centre.
ClosestOf(box, sphere) ==
  ClosestPoint(GetAABB(defs[box], bodies), PositionOf(sphere))

\* C22: box.checkCollision(sphere) returns no collision when the distance
\* from the sphere's centre to the closest point of the box's AABB is the
\* radius or more; otherwise it returns a collision whose penetration is
\* radius - distance, positive, and whose contact point is that closest
\* point.
C22_BoxSphereNarrowPhase ==
  Checked("box", "sphere") =>
    LET closest == ClosestOf(result.receiver, result.other)
        distance == VDist(PositionOf(result.other), closest)
        radius == defs[result.other].radius
    IN IF distance >= radius THEN ~result.collision.hit
       ELSE /\ result.collision.hit
            /\ result.collision.penetrationDepth = radius - distance
            /\ result.collision.penetrationDepth > 0
            /\ result.collision.contactPoint = closest

\* The acceleration that gravity and drag alone give the body b, no force of
\* the caller's being applied (none at all on a kinematic body).
UnforcedAcceleration(b) ==
  IF b.isKinematic THEN Zero
  ELSE VMul(VAdd(IF b.useGravity THEN VMul(gravity, b.mass) ELSE Zero,
                 DragOf(b.velocity, b.drag)),
            b.inverseMass)

\* C23: a force or torque that was added takes part in one integration, the
\* next one.  Over a step() call of one sub-update a body that is not static,
\* dynamic or kinematic, comes out with its lists of pending forces and
\* torques empty, and when it went in with both lists empty no force of the
\* caller's acts in that sub-update: its velocity changes by what gravity
\* and drag give, and its angular velocity by what angular drag gives.
C23_ForcesUsedOnce ==
  [][\A b \in DOMAIN bodies :
       (Stepped /\ obs'.lastSub = 1 /\ ~bodies[b].isStatic)
       => /\ bodies'[b].forces = << >>
          /\ bodies'[b].torques = << >>
          /\ (bodies[b].forces = << >> /\ bodies[b].torques = << >>)
             => /\ bodies'[b].velocity
                     = NewVelocity(bodies[b].velocity,
                                   UnforcedAcceleration(bodies[b]), timeStep)
                /\ bodies'[b].angularVelocity
                     = NewVelocity(bodies[b].angularVelocity,
                         IF bodies[b].isKinematic THEN Zero
                         ELSE VMul(DragOf(bodies[b].angularVelocity,
                                          bodies[b].angularDrag),
                                   bodies[b].inverseMass),
                         timeStep)]_vars

\* The sum of the inverse masses of the two bodies of the collision, as the
\* resolution read them.
TotalInverseMass(bs, collision) ==
  bs[collision.bodyA].inverseMass + bs[collision.bodyB].inverseMass

\* C24: when resolveCollision goes on to compute and apply an impulse, the
\* two bodies' inverse masses add up to more than zero, so that the impulse
\* and friction divisions have a non-zero divisor, and no resolution, alone
\* or within resolveCollisions as step() runs it, makes a finite velocity
\* NaN or infinite; kinematic bodies included.
C24_ImpulseDivisorPositive ==
  /\ (obs.lastCall = "resolveCollision" /\ result.resolved)
       => TotalInverseMass(result.before, result.collision) > 0
  /\ obs.lastCall \in { "resolveCollision", "resolveCollisions" }
       => \A b \in DOMAIN bodies :
            ~result.before[b].velocity.nan => ~bodies[b].velocity.nan

\* The vector has length 1, to the thousandth that the rounding of
\* normalize() in the model's numbers can take from it.
UnitLength(v) == ~v.nan /\ Abs(VMag(v) - S) <= S \div 1000

\* C25: every collision that checkCollision returns, whatever the two shapes
\* and wherever they stand (a sphere's centre on or inside the box, two
\* spheres with the same centre), has a contact normal of length 1.
C25_UnitNormal ==
  obs.lastCall = "checkCollision" =>
    /\ result.collision.hit => UnitLength(result.collision.contactNormal)
    /\ result.reverse.hit => UnitLength(result.reverse.contactNormal)

\* C26: whatever bodies and colliders were added and removed and whether the
\* world was cleared, the body of every collider in the collider registry is
\* in the body registry.
C26_ColliderBodiesRegistered ==
  \A k \in 1..Len(colliders) :
    Includes(rigidbodies, defs[colliders[k]].rigidbody)

\* C27: no collision of the world's collision list has one body as both its
\* bodyA and its bodyB, even when a body that is not static carries two
\* registered colliders that overlap.
C27_NoSelfCollision ==
  \A k \in 1..Len(collisions) : collisions[k].bodyA # collisions[k].bodyB

\* The body b is the body of a collider that is in the collider registry.
HasRegisteredCollider(b) ==
  \E k \in 1..Len(colliders) : defs[colliders[k]].rigidbody = b

\* C29: between calls, the two bodies of every collision in the list that
\* getCollisions() returns are bodies of colliders that are registered;
\* after removeCollider, removeRigidBody or a step() of no sub-update the
\* list holds no contact of a body whose collider was taken out.
C29_NoStaleCollisions ==
  \A k \in 1..Len(collisions) :
    /\ HasRegisteredCollider(collisions[k].bodyA)
    /\ HasRegisteredCollider(collisions[k].bodyB)

\* C28: whatever colliders were added and removed, whether the world was
\* cleared, and whatever limit setMaxObjects was given (one below the
\* number of colliders held, one below 10), the collider registry holds at
\* most as many colliders as the maximum that getPerformanceInfo() reports.
C28_CountWithinMaximum == Len(colliders) <= maxObjectsPerFrame

\* C30: a static body holds no pending force and no pending torque; what was
\* added while the body was dynamic and not yet integrated is dropped when
\* the body becomes static, so that after makeDynamic the first integration
\* applies only what was added since.
C30_StaticHoldsNoForces ==
  \A b \in DOMAIN bodies :
    bodies[b].isStatic => bodies[b].forces = << >> /\ bodies[b].torques = << >>
====
